---- MODULE Spec2Model ----
(***************************************************************************)
(* Polling change detector of the inFlow Inventory trigger node            *)
(* (nodes/InFlowInventory/InFlowInventoryTrigger.node.ts).                 *)
(*                                                                         *)
(* One polling job watches one event.  The job's checkpoint is the         *)
(* workflow static data object `webhookData`.  A poll cycle reads          *)
(* lastPollTime, stamps it, then awaits one snapshot request; the remote   *)
(* collection and the clock may change while the request is outstanding,   *)
(* the answer may come at the clock value of the stamp, and poll, which    *)
(* has no guard against re-entry, may be invoked again before the answer:  *)
(* `running` holds the cycles awaiting their answer, each with the         *)
(* lastPollTime and the checkpoint it read on entry.                       *)
(*                                                                         *)
(* Representation:                                                         *)
(*   - an ISO timestamp string is the integer number of clock ticks it     *)
(*     denotes (Date.toISOString / new Date round-trip exactly);           *)
(*   - a JavaScript value that may be undefined is Undefined or Some(v);   *)
(*   - a remote record is [id, status, updatedAt, quantityOnHand]; `id`    *)
(*     is entityId for entity collections and productId for the inventory  *)
(*     summary report; updatedAt = NoTime and status = NoStatus model a    *)
(*     missing field (both falsy, as undefined is in the source).          *)
(*                                                                         *)
(* The helper functions (utils/helpers.ts), the paged reader               *)
(* (transport/index.ts) and the item loop of the action node's execute     *)
(* are applied to bounded arguments through the variable `call`; an        *)
(* async function takes one step from each of its awaits to the next (the  *)
(* request sent, its answer; the operation called, its outcome, the timer  *)
(* of the delay), a synchronous loop one step per pass.                    *)
(*                                                                         *)
(* Spec follows the jobs of all events, overlapping cycles included;       *)
(* SpecDeep follows the created and updated jobs, and SpecLong the jobs    *)
(* watching a status transition or the inventory, for more cycles and      *)
(* changes, their polls invoked one after the other; SpecCalls follows     *)
(* the calls of the functions.                                             *)
(***************************************************************************)
EXTENDS Integers, Sequences, FiniteSets, TLC

(* ------------------------------ bounds --------------------------------- *)
MaxIds   == 2      \* distinct record identifiers of the remote collection
MaxTime  == 0      \* last clock tick (one more where a detector reads updatedAt)
MaxPolls == 2      \* poll cycles per behaviour (more for the jobs followed in depth)
MaxOverlaps == 1   \* polls invoked while another awaits its answer, per behaviour
MaxQty   == 1      \* largest quantity on hand in the inventory report
MaxChanges == 2    \* changes made to the remote collection per behaviour
MaxRecords == 101  \* records of a collection read page by page
MaxRetries == 2    \* largest maxRetries handed to retryOperation
MaxItems == 2      \* input items of one execution of the action node
MaxLength == 3     \* longest array handed to batchArray
MaxBatch == 4      \* largest batchSize handed to batchArray
MaxPasses == 4     \* passes of the loop of batchArray that are followed

(* ------------------------- program constants --------------------------- *)
PageCount == 50    \* query { count: 50 } of every entity snapshot request

NoTime   == -1
NoStatus == ""
NoCount  == 0      \* request carrying no count parameter

Ids == 1..MaxIds

Undefined == [def |-> FALSE]
Some(v)   == [def |-> TRUE, v |-> v]
OrElse(x, d) == IF x.def THEN x.v ELSE d      \* (x as T) || d

Range(s) == {s[k] : k \in 1..Len(s)}
Includes(s, x) == x \in Range(s)              \* Array.prototype.includes

Events ==
  { "inventory.changed", "product.created", "product.updated",
    "purchaseOrder.created", "purchaseOrder.received",
    "salesOrder.created", "salesOrder.fulfilled", "salesOrder.updated",
    "stockAdjustment.created", "stockTransfer.completed" }

\* The names every object literal inherits from Object.prototype: a lookup of
\* one of them in the endpoint table finds the inherited member.
InheritedMembers ==
  { "constructor", "toString", "toLocaleString", "valueOf", "hasOwnProperty",
    "isPrototypeOf", "propertyIsEnumerable", "__proto__", "__defineGetter__",
    "__defineSetter__", "__lookupGetter__", "__lookupSetter__" }

\* Event strings the node description does not offer; getNodeParameter hands
\* the stored parameter value to poll as it is.
UnsupportedEvents == {"product.deleted", "customer.created", "constructor"}

\* the actions that report a change of status
Transitions == {"fulfilled", "received", "completed"}

\* String.prototype.split('.'): the parts of s between its dots
RECURSIVE Split(_)
Split(s) ==
  LET dots == {k \in 1..Len(s) : SubSeq(s, k, k) = "."}
      dot  == CHOOSE k \in dots : \A j \in dots : k <= j
  IN  IF dots = {} THEN <<s>>
      ELSE <<SubSeq(s, 1, dot - 1)>> \o Split(SubSeq(s, dot + 1, Len(s)))

\* The parts of the event strings of the jobs followed are computed once.
SplitEvents == [ev \in Events \cup UnsupportedEvents |-> Split(ev)]

\* const [resourceType, actionType] = event.split('.'): actionType is
\* undefined for a string without a dot
ResourceType(event) ==
  IF event \in DOMAIN SplitEvents THEN SplitEvents[event][1] ELSE Split(event)[1]
ActionType(event) ==
  LET parts == IF event \in DOMAIN SplitEvents THEN SplitEvents[event]
               ELSE Split(event)
  IN  IF Len(parts) >= 2 THEN parts[2] ELSE "undefined"

NoEndpoint == "null"

\* endpoints[event] || null; for a name the table inherits the lookup finds
\* the member of Object.prototype (a function, or the prototype object), truthy
getEndpointForEvent(event) ==
  CASE event \in {"product.created", "product.updated"} -> "/products"
    [] event \in {"salesOrder.created", "salesOrder.updated",
                  "salesOrder.fulfilled"} -> "/salesOrders"
    [] event \in {"purchaseOrder.created", "purchaseOrder.received"} -> "/purchaseOrders"
    [] event = "stockAdjustment.created" -> "/stockAdjustments"
    [] event = "stockTransfer.completed" -> "/stockTransfers"
    [] event \in InheritedMembers -> "Object.prototype." \o event
    [] OTHER -> NoEndpoint

(* --------------------------- remote service ---------------------------- *)
\* The remote records carry the fields the detector of the watched event
\* compares; the fields it only copies into the event data are left out.
StatusesOf(ev) ==
  CASE ev = "salesOrder.fulfilled"    -> {NoStatus, "Open", "Fulfilled"}
    [] ev = "purchaseOrder.received"  -> {"Open", "PartiallyReceived", "Received"}
    [] ev = "stockTransfer.completed" -> {"Open", "Completed"}
    [] OTHER -> {NoStatus}

HasUpdatedAt(ev) == ev \in {"product.updated", "salesOrder.updated"}

QuantitiesOf(ev) == IF ev = "inventory.changed" THEN 0..MaxQty ELSE {0}

IdsOf(items) == {items[k].id : k \in 1..Len(items)}

\* The page a request is answered with: at most `count` records of the
\* collection in the service's order; the whole report when no count is sent.
FetchPage(collection, count) ==
  IF count = NoCount \/ Len(collection) <= count
    THEN collection
    ELSE SubSeq(collection, 1, count)

ListResponse(items) == [kind |-> "list", items |-> items]
ThrowResponse       == [kind |-> "throw", items |-> <<>>]
NonListResponse     == [kind |-> "nonlist", items |-> <<>>]

\* inFlowApiRequest: resolves with the response body or rejects with a
\* NodeApiError on a network or HTTP failure.
inFlowApiRequest(collection, count, outcome) ==
  CASE outcome = "list"  -> ListResponse(FetchPage(collection, count))
    [] outcome = "throw" -> ThrowResponse
    [] OTHER             -> NonListResponse

Outcomes == {"list", "throw", "nonlist"}

(* ------------------------------ checkpoint ----------------------------- *)
EmptyStaticData ==
  [ lastPollTime          |-> Undefined,
    knownIds              |-> Undefined,
    salesOrderIds         |-> Undefined,
    salesOrderStatuses    |-> Undefined,
    purchaseOrderIds      |-> Undefined,
    purchaseOrderStatuses |-> Undefined,
    stockAdjustmentIds    |-> Undefined,
    stockTransferStatuses |-> Undefined,
    inventorySnapshot     |-> Undefined ]

\* items.map(item => item.entityId)
MapIds(items) == [k \in 1..Len(items) |-> items[k].id]

\* the object built by `current[id] = value` over the items in order
LastIndexOf(items, id) ==
  CHOOSE k \in 1..Len(items) :
    /\ items[k].id = id
    /\ \A j \in (k+1)..Len(items) : items[j].id # id
MapStatuses(items) ==
  [id \in IdsOf(items) |-> items[LastIndexOf(items, id)].status]
MapQuantities(items) ==
  [id \in IdsOf(items) |-> items[LastIndexOf(items, id)].quantityOnHand]

\* the comparison with >= in place of >
UpdatedSince_Inclusive(updatedAt, lastPollTime) ==
  /\ updatedAt # NoTime
  /\ lastPollTime.def
  /\ updatedAt >= lastPollTime.v

\* updatedAt && new Date(updatedAt) > new Date(lastPollTime)
UpdatedSince(updatedAt, lastPollTime) ==
  /\ updatedAt # NoTime
  /\ lastPollTime.def
  /\ updatedAt > lastPollTime.v

EventRecord(name, data) == [event |-> name, data |-> data]

\* returnData after pushing one event per item of `items` that passes Test
PushEach(items, name, Test(_)) ==
  LET kept == SelectSeq(items, Test)
  IN  [k \in 1..Len(kept) |-> EventRecord(name, kept[k])]

Returned(events, wd) == [threw |-> FALSE, events |-> events, wd |-> wd]
Thrown(wd)           == [threw |-> TRUE,  events |-> <<>>,   wd |-> wd]

\* the catch block leaving the checkpoint as it is
initializePollingState_SilentCatch(wd, event, resp) ==
  IF getEndpointForEvent(event) = NoEndpoint THEN wd
  ELSE CASE resp.kind = "list"  -> [wd EXCEPT !.knownIds = Some(MapIds(resp.items))]
         [] OTHER               -> wd

initializePollingState(wd, event, resp) ==
  IF getEndpointForEvent(event) = NoEndpoint THEN wd
  ELSE CASE resp.kind = "list"  -> [wd EXCEPT !.knownIds = Some(MapIds(resp.items))]
         [] resp.kind = "throw" -> [wd EXCEPT !.knownIds = Some(<<>>)]
         [] OTHER               -> wd

\* A detector reads its baseline (knownIds, knownStatuses, knownInventory) on
\* entry, before it awaits the snapshot, and writes the checkpoint after the
\* answer: `entry` is the checkpoint as it was on entry, `wd` the checkpoint
\* at the answer.

\* pollProducts without the final write of knownIds
pollProducts_StaleIds(actionType, lastPollTime, entry, wd, resp) ==
  LET knownIds == OrElse(entry.knownIds, <<>>)
      products == resp.items
      events ==
        CASE actionType = "created" ->
               PushEach(products, "product.created",
                        LAMBDA p : ~Includes(knownIds, p.id))
          [] actionType = "updated" ->
               PushEach(products, "product.updated",
                        LAMBDA p : /\ UpdatedSince(p.updatedAt, lastPollTime)
                                   /\ Includes(knownIds, p.id))
          [] OTHER -> <<>>
  IN  CASE resp.kind = "throw"   -> Thrown(wd)
        [] resp.kind = "nonlist" -> Returned(<<>>, wd)
        [] OTHER -> Returned(events, wd)

pollProducts(actionType, lastPollTime, entry, wd, resp) ==
  LET knownIds == OrElse(entry.knownIds, <<>>)
      products == resp.items
      events ==
        CASE actionType = "created" ->
               PushEach(products, "product.created",
                        LAMBDA p : ~Includes(knownIds, p.id))
          [] actionType = "updated" ->
               PushEach(products, "product.updated",
                        LAMBDA p : /\ UpdatedSince(p.updatedAt, lastPollTime)
                                   /\ Includes(knownIds, p.id))
          [] OTHER -> <<>>
  IN  CASE resp.kind = "throw"   -> Thrown(wd)
        [] resp.kind = "nonlist" -> Returned(<<>>, wd)
        [] OTHER -> Returned(events, [wd EXCEPT !.knownIds = Some(MapIds(products))])

\* pollSalesOrders without the test that a previous status is recorded
pollSalesOrders_FirstSight(actionType, lastPollTime, entry, wd, resp) ==
  LET knownIds      == OrElse(entry.salesOrderIds, <<>>)
      knownStatuses == OrElse(entry.salesOrderStatuses, <<>>)
      orders == resp.items
      events ==
        CASE actionType = "created" ->
               PushEach(orders, "salesOrder.created",
                        LAMBDA o : ~Includes(knownIds, o.id))
          [] actionType = "updated" ->
               PushEach(orders, "salesOrder.updated",
                        LAMBDA o : /\ Includes(knownIds, o.id)
                                   /\ UpdatedSince(o.updatedAt, lastPollTime))
          [] actionType = "fulfilled" ->
               PushEach(orders, "salesOrder.fulfilled",
                        LAMBDA o : /\ o.status = "Fulfilled"
                                   /\ \/ o.id \notin DOMAIN knownStatuses
                                      \/ knownStatuses[o.id] # "Fulfilled")
          [] OTHER -> <<>>
  IN  CASE resp.kind = "throw"   -> Thrown(wd)
        [] resp.kind = "nonlist" -> Returned(<<>>, wd)
        [] OTHER -> Returned(events,
                       [wd EXCEPT !.salesOrderIds = Some(MapIds(orders)),
                                  !.salesOrderStatuses = Some(MapStatuses(orders))])

\* pollSalesOrders keeping the status it already holds for an id
pollSalesOrders_KeepOld(actionType, lastPollTime, entry, wd, resp) ==
  LET knownIds      == OrElse(entry.salesOrderIds, <<>>)
      knownStatuses == OrElse(entry.salesOrderStatuses, <<>>)
      orders == resp.items
      statuses == MapStatuses(orders)
      events ==
        CASE actionType = "created" ->
               PushEach(orders, "salesOrder.created",
                        LAMBDA o : ~Includes(knownIds, o.id))
          [] actionType = "updated" ->
               PushEach(orders, "salesOrder.updated",
                        LAMBDA o : /\ Includes(knownIds, o.id)
                                   /\ UpdatedSince(o.updatedAt, lastPollTime))
          [] actionType = "fulfilled" ->
               PushEach(orders, "salesOrder.fulfilled",
                        LAMBDA o : /\ o.status = "Fulfilled"
                                   /\ o.id \in DOMAIN knownStatuses
                                   /\ knownStatuses[o.id] # NoStatus
                                   /\ knownStatuses[o.id] # "Fulfilled")
          [] OTHER -> <<>>
  IN  CASE resp.kind = "throw"   -> Thrown(wd)
        [] resp.kind = "nonlist" -> Returned(<<>>, wd)
        [] OTHER -> Returned(events,
                       [wd EXCEPT !.salesOrderIds = Some(MapIds(orders)),
                                  !.salesOrderStatuses =
                                     Some([id \in DOMAIN statuses |->
                                             IF id \in DOMAIN knownStatuses
                                               THEN knownStatuses[id]
                                               ELSE statuses[id]])])

pollSalesOrders(actionType, lastPollTime, entry, wd, resp) ==
  LET knownIds      == OrElse(entry.salesOrderIds, <<>>)
      knownStatuses == OrElse(entry.salesOrderStatuses, <<>>)
      orders == resp.items
      events ==
        CASE actionType = "created" ->
               PushEach(orders, "salesOrder.created",
                        LAMBDA o : ~Includes(knownIds, o.id))
          [] actionType = "updated" ->
               PushEach(orders, "salesOrder.updated",
                        LAMBDA o : /\ Includes(knownIds, o.id)
                                   /\ UpdatedSince(o.updatedAt, lastPollTime))
          [] actionType = "fulfilled" ->
               PushEach(orders, "salesOrder.fulfilled",
                        LAMBDA o : /\ o.status = "Fulfilled"
                                   /\ o.id \in DOMAIN knownStatuses
                                   /\ knownStatuses[o.id] # NoStatus
                                   /\ knownStatuses[o.id] # "Fulfilled")
          [] OTHER -> <<>>
  IN  CASE resp.kind = "throw"   -> Thrown(wd)
        [] resp.kind = "nonlist" -> Returned(<<>>, wd)
        [] OTHER -> Returned(events,
                       [wd EXCEPT !.salesOrderIds = Some(MapIds(orders)),
                                  !.salesOrderStatuses = Some(MapStatuses(orders))])

\* pollPurchaseOrders accumulating ids over the cycles instead of replacing them
pollPurchaseOrders_Union(actionType, lastPollTime, entry, wd, resp) ==
  LET knownIds      == OrElse(entry.purchaseOrderIds, <<>>)
      knownStatuses == OrElse(entry.purchaseOrderStatuses, <<>>)
      orders == resp.items
      events ==
        CASE actionType = "created" ->
               PushEach(orders, "purchaseOrder.created",
                        LAMBDA o : ~Includes(knownIds, o.id))
          [] actionType = "received" ->
               PushEach(orders, "purchaseOrder.received",
                        LAMBDA o : /\ o.status \in {"Received", "PartiallyReceived"}
                                   /\ o.id \in DOMAIN knownStatuses
                                   /\ knownStatuses[o.id] = "Open")
          [] OTHER -> <<>>
  IN  CASE resp.kind = "throw"   -> Thrown(wd)
        [] resp.kind = "nonlist" -> Returned(<<>>, wd)
        [] OTHER -> Returned(events,
                       [wd EXCEPT !.purchaseOrderIds = Some(knownIds \o MapIds(orders)),
                                  !.purchaseOrderStatuses = Some(MapStatuses(orders))])

pollPurchaseOrders(actionType, lastPollTime, entry, wd, resp) ==
  LET knownIds      == OrElse(entry.purchaseOrderIds, <<>>)
      knownStatuses == OrElse(entry.purchaseOrderStatuses, <<>>)
      orders == resp.items
      events ==
        CASE actionType = "created" ->
               PushEach(orders, "purchaseOrder.created",
                        LAMBDA o : ~Includes(knownIds, o.id))
          [] actionType = "received" ->
               PushEach(orders, "purchaseOrder.received",
                        LAMBDA o : /\ o.status \in {"Received", "PartiallyReceived"}
                                   /\ o.id \in DOMAIN knownStatuses
                                   /\ knownStatuses[o.id] = "Open")
          [] OTHER -> <<>>
  IN  CASE resp.kind = "throw"   -> Thrown(wd)
        [] resp.kind = "nonlist" -> Returned(<<>>, wd)
        [] OTHER -> Returned(events,
                       [wd EXCEPT !.purchaseOrderIds = Some(MapIds(orders)),
                                  !.purchaseOrderStatuses = Some(MapStatuses(orders))])

pollStockAdjustments(entry, wd, resp) ==
  LET knownIds    == OrElse(entry.stockAdjustmentIds, <<>>)
      adjustments == resp.items
      events == PushEach(adjustments, "stockAdjustment.created",
                         LAMBDA a : ~Includes(knownIds, a.id))
  IN  CASE resp.kind = "throw"   -> Thrown(wd)
        [] resp.kind = "nonlist" -> Returned(<<>>, wd)
        [] OTHER -> Returned(events,
                       [wd EXCEPT !.stockAdjustmentIds = Some(MapIds(adjustments))])

\* pollStockTransfers accepting any recorded previous status
pollStockTransfers_AnyPrevious(actionType, entry, wd, resp) ==
  LET knownStatuses == OrElse(entry.stockTransferStatuses, <<>>)
      transfers == resp.items
      events ==
        IF actionType = "completed"
          THEN PushEach(transfers, "stockTransfer.completed",
                        LAMBDA t : /\ t.status = "Completed"
                                   /\ t.id \in DOMAIN knownStatuses)
          ELSE <<>>
  IN  CASE resp.kind = "throw"   -> Thrown(wd)
        [] resp.kind = "nonlist" -> Returned(<<>>, wd)
        [] OTHER -> Returned(events,
                       [wd EXCEPT !.stockTransferStatuses = Some(MapStatuses(transfers))])

pollStockTransfers(actionType, entry, wd, resp) ==
  LET knownStatuses == OrElse(entry.stockTransferStatuses, <<>>)
      transfers == resp.items
      events ==
        IF actionType = "completed"
          THEN PushEach(transfers, "stockTransfer.completed",
                        LAMBDA t : /\ t.status = "Completed"
                                   /\ t.id \in DOMAIN knownStatuses
                                   /\ knownStatuses[t.id] = "Open")
          ELSE <<>>
  IN  CASE resp.kind = "throw"   -> Thrown(wd)
        [] resp.kind = "nonlist" -> Returned(<<>>, wd)
        [] OTHER -> Returned(events,
                       [wd EXCEPT !.stockTransferStatuses = Some(MapStatuses(transfers))])

\* pollInventoryChanges computing the change as previous - current
pollInventoryChanges_Negated(entry, wd, resp) ==
  LET knownInventory == OrElse(entry.inventorySnapshot, <<>>)
      inventory == resp.items
      changed == SelectSeq(inventory,
                   LAMBDA item : /\ item.id \in DOMAIN knownInventory
                                 /\ knownInventory[item.id] # item.quantityOnHand)
      events ==
        [k \in 1..Len(changed) |->
           EventRecord("inventory.changed",
             [ productId        |-> changed[k].id,
               previousQuantity |-> knownInventory[changed[k].id],
               currentQuantity  |-> changed[k].quantityOnHand,
               change |-> knownInventory[changed[k].id] - changed[k].quantityOnHand ])]
  IN  CASE resp.kind = "throw"   -> Thrown(wd)
        [] resp.kind = "nonlist" -> Returned(<<>>, wd)
        [] OTHER -> Returned(events,
                       [wd EXCEPT !.inventorySnapshot = Some(MapQuantities(inventory))])

\* pollInventoryChanges pushing its events in the opposite order
pollInventoryChanges_Reversed(entry, wd, resp) ==
  LET knownInventory == OrElse(entry.inventorySnapshot, <<>>)
      inventory == resp.items
      changed == SelectSeq(inventory,
                   LAMBDA item : /\ item.id \in DOMAIN knownInventory
                                 /\ knownInventory[item.id] # item.quantityOnHand)
      events ==
        [k \in 1..Len(changed) |->
           EventRecord("inventory.changed",
             [ productId        |-> changed[k].id,
               previousQuantity |-> knownInventory[changed[k].id],
               currentQuantity  |-> changed[k].quantityOnHand,
               change |-> changed[k].quantityOnHand - knownInventory[changed[k].id] ])]
      reversed == [k \in 1..Len(events) |-> events[Len(events) + 1 - k]]
  IN  CASE resp.kind = "throw"   -> Thrown(wd)
        [] resp.kind = "nonlist" -> Returned(<<>>, wd)
        [] OTHER -> Returned(reversed,
                       [wd EXCEPT !.inventorySnapshot = Some(MapQuantities(inventory))])

pollInventoryChanges(entry, wd, resp) ==
  LET knownInventory == OrElse(entry.inventorySnapshot, <<>>)
      inventory == resp.items
      changed == SelectSeq(inventory,
                   LAMBDA item : /\ item.id \in DOMAIN knownInventory
                                 /\ knownInventory[item.id] # item.quantityOnHand)
      events ==
        [k \in 1..Len(changed) |->
           EventRecord("inventory.changed",
             [ productId        |-> changed[k].id,
               previousQuantity |-> knownInventory[changed[k].id],
               currentQuantity  |-> changed[k].quantityOnHand,
               change |-> changed[k].quantityOnHand - knownInventory[changed[k].id] ])]
  IN  CASE resp.kind = "throw"   -> Thrown(wd)
        [] resp.kind = "nonlist" -> Returned(<<>>, wd)
        [] OTHER -> Returned(events,
                       [wd EXCEPT !.inventorySnapshot = Some(MapQuantities(inventory))])

\* the switch of detectChanges, before its catch clause
dispatchPoll(event, lastPollTime, entry, wd, resp) ==
  LET resourceType == ResourceType(event)
      actionType   == ActionType(event)
  IN  CASE resourceType = "product" -> pollProducts(actionType, lastPollTime, entry, wd, resp)
        [] resourceType = "salesOrder" -> pollSalesOrders(actionType, lastPollTime, entry, wd, resp)
        [] resourceType = "purchaseOrder" -> pollPurchaseOrders(actionType, lastPollTime, entry, wd, resp)
        [] resourceType = "stockAdjustment" -> pollStockAdjustments(entry, wd, resp)
        [] resourceType = "stockTransfer" -> pollStockTransfers(actionType, entry, wd, resp)
        [] resourceType = "inventory" -> pollInventoryChanges(entry, wd, resp)
        [] OTHER -> Returned(<<>>, wd)

\* detectChanges without its try/catch
detectChanges_NoCatch(event, lastPollTime, entry, wd, resp) ==
  dispatchPoll(event, lastPollTime, entry, wd, resp)

detectChanges(event, lastPollTime, entry, wd, resp) ==
  LET r == dispatchPoll(event, lastPollTime, entry, wd, resp)
  IN  IF r.threw THEN Returned(<<>>, r.wd) ELSE r

\* the resources detectChanges has a case for
Polled ==
  { "product", "salesOrder", "purchaseOrder", "stockAdjustment",
    "stockTransfer", "inventory" }

\* getNodeParameter('options', {}), read by every poll: each filter is absent,
\* the empty string or an identifier
NoOptions == [locationId |-> Undefined, categoryId |-> Undefined]
OptionSets ==
  [ locationId : {Undefined, Some(""), Some("L1")},
    categoryId : {Undefined, Some(""), Some("C1")} ]

\* if (options.locationId): a non-empty string
Truthy(x) == x.def /\ x.v # ""

\* the query string (qs) of a request: the parameters it carries
Query(count, after, locationId, categoryId) ==
  [ count |-> count, after |-> after,
    locationId |-> locationId, categoryId |-> categoryId ]

\* { count: 50 }
EntityQuery == Query(Some(PageCount), Undefined, Undefined, Undefined)

\* query = {}; if (options.locationId) query.locationId = options.locationId
InventoryQuery(opts) ==
  Query(Undefined, Undefined,
        IF Truthy(opts.locationId) THEN opts.locationId ELSE Undefined,
        Undefined)

Request(endpoint, query) == [endpoint |-> endpoint, query |-> query]

\* the cycle also asking for the page after the first one
SnapshotRequests_NextPage(ev, first, opts) ==
  IF first \/ ResourceType(ev) \notin Polled THEN <<>>
  ELSE << Request("/products", EntityQuery),
          Request("/products",
                  Query(Some(PageCount), Some(PageCount), Undefined, Undefined)) >>

\* the requests one poll cycle sends: `first` tells the bootstrap cycle
SnapshotRequests(ev, first, opts) ==
  IF first
    THEN IF getEndpointForEvent(ev) = NoEndpoint THEN <<>>
         ELSE << Request(getEndpointForEvent(ev), EntityQuery) >>
    ELSE CASE ResourceType(ev) = "product" ->
                << Request("/products", EntityQuery) >>
           [] ResourceType(ev) = "salesOrder" ->
                << Request("/salesOrders", EntityQuery) >>
           [] ResourceType(ev) = "purchaseOrder" ->
                << Request("/purchaseOrders", EntityQuery) >>
           [] ResourceType(ev) = "stockAdjustment" ->
                << Request("/stockAdjustments", EntityQuery) >>
           [] ResourceType(ev) = "stockTransfer" ->
                << Request("/stockTransfers", EntityQuery) >>
           [] ResourceType(ev) = "inventory" ->
                << Request("/reports/inventorySummary", InventoryQuery(opts)) >>
           [] OTHER -> <<>>

\* a poll that never takes the first-poll branch
IsFirstPoll_Never(lastPollTime) == FALSE

\* if (!lastPollTime)
IsFirstPoll(lastPollTime) == ~lastPollTime.def

\* The value poll resolves with: null, or `[changes]`, the items of the node's
\* single output; `events` is that list of items.
NullResult == [kind |-> "null", events |-> <<>>]

\* poll returning [changes] also when no change was detected
pollReturn_EmptyList(r) ==
  IF r.threw THEN [kind |-> "throw", events |-> <<>>]
  ELSE [kind |-> "events", events |-> r.events]

pollReturn(r) ==
  IF r.threw THEN [kind |-> "throw", events |-> <<>>]
  ELSE IF Len(r.events) = 0 THEN NullResult
  ELSE [kind |-> "events", events |-> r.events]

(* ------------------------- utils/helpers.ts ----------------------------- *)
\* A JavaScript value is a record tagged with its type.  An object is a
\* function from Keys to values, Absent marking a key the object does not have
\* (a key whose value is undefined is a different thing: Object.entries lists it).
Keys      == {"a", "b"}
InnerKeys == {"a"}

Absent       == [t |-> "absent"]
JsUndefined  == [t |-> "undefined"]
JsNull       == [t |-> "null"]
JsString(v)  == [t |-> "string",  str |-> v]
JsNumber(v)  == [t |-> "number",  num |-> v]
JsBoolean(v) == [t |-> "boolean", bool |-> v]
JsArray(v)   == [t |-> "array",   items |-> v]
JsObject(v)  == [t |-> "object",  v |-> v]

Leaves ==
  { JsUndefined, JsNull, JsString(""), JsString("x"), JsNumber(0),
    JsBoolean(FALSE), JsArray(<<>>), JsArray(<<JsNull>>) }

\* the objects whose keys are among `keys` and whose values are among `values`
ObjectsOver(keys, values) ==
  { [k \in Keys |-> IF k \in keys THEN f[k] ELSE Absent] :
      f \in [keys -> values \cup {Absent}] }

\* Object.keys(obj)
ObjectKeys(obj) == {k \in Keys : obj[k] # Absent}

\* cleanObject testing `if (value)` instead of the three comparisons
RECURSIVE cleanObject_Falsy(_)
cleanObject_Falsy(obj) ==
  [key \in Keys |->
     LET value == obj[key]
     IN  IF value = Absent THEN Absent
         ELSE IF value \notin { JsUndefined, JsNull, JsString(""), JsNumber(0),
                                JsBoolean(FALSE) }
           THEN IF value.t = "object"
                  THEN LET cleaned == cleanObject_Falsy(value.v)
                       IN  IF ObjectKeys(cleaned) # {} THEN JsObject(cleaned) ELSE Absent
                  ELSE value
           ELSE Absent]

RECURSIVE cleanObject(_)
cleanObject(obj) ==
  [key \in Keys |->
     LET value == obj[key]
     IN  IF value = Absent THEN Absent
         ELSE IF value # JsUndefined /\ value # JsNull /\ value # JsString("")
           THEN IF value.t = "object"
                  THEN LET cleaned == cleanObject(value.v)
                       IN  IF ObjectKeys(cleaned) # {} THEN JsObject(cleaned) ELSE Absent
                  ELSE value
           ELSE Absent]

\* A string examined character by character is the sequence of its characters.
LowerHex == {"0", "1", "2", "3", "4", "5", "6", "7", "8", "9",
             "a", "b", "c", "d", "e", "f"}
UpperHex == {"A", "B", "C", "D", "E", "F"}

\* the lengths of the groups of [0-9a-f] of guidRegex and what separates them
GuidGroups    == <<8, 4, 4, 4, 12>>
GuidSeparator == "-"

\* [0-9a-f] at one character, with or without the i flag
HexClass(c, ignoreCase) == c \in LowerHex \/ (ignoreCase /\ c \in UpperHex)

\* [0-9a-f]{n} at position pos of s: the position after the match, 0 for no match
MatchHex(s, pos, n, ignoreCase) ==
  IF /\ pos + n - 1 <= Len(s)
     /\ \A i \in pos..(pos + n - 1) : HexClass(s[i], ignoreCase)
    THEN pos + n
    ELSE 0

\* the groups from group g on, matched at position pos up to the end of s
RECURSIVE MatchGroups(_, _, _, _)
MatchGroups(s, pos, g, ignoreCase) ==
  LET after == MatchHex(s, pos, GuidGroups[g], ignoreCase)
  IN  IF after = 0 THEN FALSE
      ELSE IF g = Len(GuidGroups) THEN after = Len(s) + 1
      ELSE /\ after <= Len(s)
           /\ s[after] = GuidSeparator
           /\ MatchGroups(s, after + 1, g + 1, ignoreCase)

isValidGuid_CaseSensitive(value) == MatchGroups(value, 1, 1, FALSE)

isValidGuid(value) == MatchGroups(value, 1, 1, TRUE)

createReference(value) ==
  IF isValidGuid(value) THEN [entityId |-> value] ELSE [name |-> value]

\* ToBoolean of a value read from an object (a missing key reads as undefined)
JsTruthy(value) ==
  value \notin {Absent, JsUndefined, JsNull, JsString(""), JsNumber(0), JsBoolean(FALSE)}

\* Array.prototype.join(','): null and undefined elements join as ''
RECURSIVE JoinFrom(_, _)
JoinFrom(items, k) ==
  LET text == IF items[k] \in {JsNull, JsUndefined} THEN "" ELSE items[k].str
  IN  IF k = Len(items) THEN text ELSE text \o "," \o JoinFrom(items, k + 1)

Join(items) == IF Len(items) = 0 THEN "" ELSE JoinFrom(items, 1)

\* the query object: a key the function did not set is Absent
EmptyQuery ==
  [ count |-> Absent, after |-> Absent, before |-> Absent, include |-> Absent,
    filterSmart |-> Absent, startDate |-> Absent, endDate |-> Absent ]

buildQueryParams_Present(options) ==
  [ count       |-> options.limit,
    after       |-> IF JsTruthy(options.after) THEN options.after ELSE Absent,
    before      |-> IF JsTruthy(options.before) THEN options.before ELSE Absent,
    include     |-> IF JsTruthy(options.include) /\ options.include.t = "array"
                      THEN JsString(Join(options.include.items)) ELSE Absent,
    filterSmart |-> IF JsTruthy(options.smart) THEN options.smart ELSE Absent,
    startDate   |-> IF JsTruthy(options.startDate) THEN options.startDate ELSE Absent,
    endDate     |-> IF JsTruthy(options.endDate) THEN options.endDate ELSE Absent ]

buildQueryParams(options) ==
  [ count       |-> IF JsTruthy(options.limit) THEN options.limit ELSE Absent,
    after       |-> IF JsTruthy(options.after) THEN options.after ELSE Absent,
    before      |-> IF JsTruthy(options.before) THEN options.before ELSE Absent,
    include     |-> IF JsTruthy(options.include) /\ options.include.t = "array"
                      THEN JsString(Join(options.include.items)) ELSE Absent,
    filterSmart |-> IF JsTruthy(options.smart) THEN options.smart ELSE Absent,
    startDate   |-> IF JsTruthy(options.startDate) THEN options.startDate ELSE Absent,
    endDate     |-> IF JsTruthy(options.endDate) THEN options.endDate ELSE Absent ]

\* retryOperation(operation, maxRetries = 3, initialDelay = 1000)
DefaultMaxRetries   == 3
DefaultInitialDelay == 1000

\* the locals of retryOperation before the loop; `called` counts the calls of
\* operation, `invoked` lists the outcomes of those that have settled and
\* `delays` the waits, in order; `pending` is what the function awaits
\* ("operation", "timer") or "none"
RetryLocals ==
  [ attempt |-> 0, lastError |-> Undefined, called |-> 0, invoked |-> <<>>,
    delays |-> <<>>, pending |-> "none", returned |-> Undefined, thrown |-> FALSE ]

\* the value attempt number k resolves with, the error it rejects with
ValueOf(attempt) == [value |-> attempt]
ErrorOf(attempt) == [error |-> attempt]

\* the loop test and what follows it: operation() called and awaited, or
\* lastError thrown when the attempts have run out
RetryEnter(loc, maxRetries) ==
  IF loc.attempt <= maxRetries
    THEN [loc EXCEPT !.called = @ + 1, !.pending = "operation"]
    ELSE [loc EXCEPT !.pending = "none", !.thrown = TRUE]

\* attempt++ and the next pass of the loop
RetryNext(loc, maxRetries) ==
  RetryEnter([loc EXCEPT !.attempt = @ + 1], maxRetries)

\* a wait after every failed attempt, the last one included
RetryPass_AlwaysWait(loc, maxRetries, initialDelay, outcome) ==
  IF outcome = "resolve"
    THEN [loc EXCEPT !.invoked = Append(@, outcome), !.pending = "none",
                     !.returned = Some(ValueOf(loc.attempt))]
    ELSE [loc EXCEPT !.invoked = Append(@, outcome),
                     !.lastError = Some(ErrorOf(loc.attempt)),
                     !.delays = Append(@, initialDelay * 2 ^ loc.attempt),
                     !.pending = "timer"]

\* the awaited operation() settles: its value is returned, or its error kept
\* and, before every attempt but the last, delay(delayMs) awaited; after the
\* last attempt the loop ends and lastError is thrown
RetryPass(loc, maxRetries, initialDelay, outcome) ==
  IF outcome = "resolve"
    THEN [loc EXCEPT !.invoked = Append(@, outcome), !.pending = "none",
                     !.returned = Some(ValueOf(loc.attempt))]
  ELSE IF loc.attempt < maxRetries
    THEN [loc EXCEPT !.invoked = Append(@, outcome),
                     !.lastError = Some(ErrorOf(loc.attempt)),
                     !.delays = Append(@, initialDelay * 2 ^ loc.attempt),
                     !.pending = "timer"]
  ELSE RetryNext([loc EXCEPT !.invoked = Append(@, outcome),
                             !.lastError = Some(ErrorOf(loc.attempt))],
                 maxRetries)

(* --------------------------- transport/index.ts ------------------------- *)
\* Array.prototype.slice(start, end): a negative index counts from the end
JsSlice(array, start, end) ==
  LET len   == Len(array)
      from  == IF start < 0 THEN (IF len + start < 0 THEN 0 ELSE len + start)
               ELSE (IF start > len THEN len ELSE start)
      final == IF end < 0 THEN (IF len + end < 0 THEN 0 ELSE len + end)
               ELSE (IF end > len THEN len ELSE end)
  IN  SubSeq(array, from + 1, final)

pageSize == 50

\* the remote collection: n records in the service's order, each with its entityId
Record(i) == [entityId |-> i]
RecordsOf(n) == [i \in 1..n |-> Record(i)]

\* the page of a cursor request: the records after the one named by `after`,
\* at most `count` of them
AllItemsPage(n, query) ==
  LET start == IF query.after.def THEN query.after.v ELSE 0
      rest  == n - start
      size  == IF rest < query.count THEN rest ELSE query.count
  IN  [k \in 1..size |-> Record(start + k)]

\* inFlowApiRequest.call(this, method, endpoint, body, query)
AllItemsResponse(n, query, outcome) ==
  CASE outcome = "list"  -> ListResponse(AllItemsPage(n, query))
    [] outcome = "throw" -> ThrowResponse
    [] OTHER             -> NonListResponse

\* the locals of inFlowApiRequestAllItems before the loop; `requests` lists
\* the queries sent and `pages` the answers received, in order; `awaiting`
\* holds while the function awaits the answer of its last request
AllItemsLocals ==
  [ returnData |-> <<>>, hasMore |-> TRUE, afterEntityId |-> Undefined,
    query |-> [count |-> pageSize, after |-> Undefined],
    requests |-> <<>>, pages |-> <<>>, awaiting |-> FALSE, returned |-> Undefined ]

\* if (afterEntityId) query.after = afterEntityId
AllItemsQuery(loc) ==
  IF loc.afterEntityId.def THEN [loc.query EXCEPT !.after = loc.afterEntityId]
                           ELSE loc.query

\* the top of the while loop up to the await: the cursor written into the
\* query (the caller's object) and the request sent
AllItemsSend(loc) ==
  LET query == AllItemsQuery(loc)
  IN  [loc EXCEPT !.query = query, !.requests = Append(@, query), !.awaiting = TRUE]

\* if (limit && ...)
LimitGiven(limit) == limit.def /\ limit.v # 0

\* the loop going on until a page comes back empty
AllItemsPass_UntilEmpty(loc, limit, responseData) ==
  IF responseData.kind = "list" /\ Len(responseData.items) > 0
    THEN LET returnData == loc.returnData \o responseData.items
             last       == responseData.items[Len(responseData.items)]
             next       == [loc EXCEPT !.returnData = returnData,
                                       !.afterEntityId = Some(last.entityId),
                                       !.hasMore = TRUE]
         IN  IF LimitGiven(limit) /\ Len(returnData) >= limit.v
               THEN [next EXCEPT !.hasMore = FALSE,
                                 !.returned = Some(JsSlice(returnData, 0, limit.v))]
               ELSE next
    ELSE [loc EXCEPT !.hasMore = FALSE, !.returned = Some(loc.returnData)]

\* the limit applied only when the pages have run out
AllItemsPass_LimitAtEnd(loc, limit, responseData) ==
  LET cut(data) == IF LimitGiven(limit) /\ Len(data) >= limit.v
                     THEN JsSlice(data, 0, limit.v) ELSE data
  IN  IF responseData.kind = "list" /\ Len(responseData.items) > 0
        THEN LET returnData == loc.returnData \o responseData.items
                 last       == responseData.items[Len(responseData.items)]
                 next       == [loc EXCEPT !.returnData = returnData,
                                           !.afterEntityId = Some(last.entityId),
                                           !.hasMore = (Len(responseData.items) = pageSize)]
             IN  IF next.hasMore THEN next
                 ELSE [next EXCEPT !.returned = Some(cut(returnData))]
        ELSE [loc EXCEPT !.hasMore = FALSE, !.returned = Some(cut(loc.returnData))]

\* the rest of a pass of the while loop, from the answer responseData of its
\* request; `returned` is set when the function returns in or after this pass
AllItemsPass(loc, limit, responseData) ==
  IF responseData.kind = "list" /\ Len(responseData.items) > 0
    THEN LET returnData == loc.returnData \o responseData.items
             last       == responseData.items[Len(responseData.items)]
             next       == [loc EXCEPT !.returnData = returnData,
                                       !.afterEntityId = Some(last.entityId),
                                       !.hasMore = (Len(responseData.items) = pageSize)]
         IN  IF LimitGiven(limit) /\ Len(returnData) >= limit.v
               THEN [next EXCEPT !.hasMore = FALSE,
                                 !.returned = Some(JsSlice(returnData, 0, limit.v))]
               ELSE IF next.hasMore THEN next
               ELSE [next EXCEPT !.returned = Some(returnData)]
    ELSE [loc EXCEPT !.hasMore = FALSE, !.returned = Some(loc.returnData)]

\* the locals of batchArray before the loop
BatchLocals == [ i |-> 0, batches |-> <<>> ]

\* one pass of the for loop of batchArray
BatchPass(loc, array, batchSize) ==
  [loc EXCEPT !.batches = Append(@, JsSlice(array, loc.i, loc.i + batchSize)),
              !.i = @ + batchSize]

(* ------------------------ InFlowInventory.execute ----------------------- *)
\* the cases of the switch on resource, and those of the switch on operation
\* of each execute<Resource>Operation
SupportedResources ==
  {"product", "salesOrder", "purchaseOrder", "customer", "vendor", "location",
   "stockAdjustment", "stockTransfer", "category", "pricingLevel",
   "adjustmentReason", "report"}

\* the cases of the switch on operation of the function execute dispatches to,
\* each with the place of its switch
OperationsOf(resource) ==
  \* executeProductOperation, part_001 505-628
  CASE resource = "product" ->
         {"get", "getAll", "create", "update", "delete", "getInventorySummary",
          "getBarcode", "getPricing", "getVendors"}
    \* executeSalesOrderOperation, actions/vendor/index.ts 1094-1269
    [] resource = "salesOrder" ->
         {"get", "getAll", "create", "update", "delete", "fulfill", "void",
          "addPayment", "getPayments", "getShipments"}
    \* executePurchaseOrderOperation, actions/purchaseOrder/index.ts 477-619
    [] resource = "purchaseOrder" ->
         {"get", "getAll", "create", "update", "delete", "receive", "close", "void",
          "getReceivings"}
    \* executeCustomerOperation, actions/customer/index.ts 454-589
    [] resource = "customer" ->
         {"get", "getAll", "create", "update", "delete", "getOrders",
          "getAddresses", "addAddress", "getBalance"}
    \* executeVendorOperation, actions/vendor/index.ts 414-537
    [] resource = "vendor" ->
         {"get", "getAll", "create", "update", "delete", "getPurchaseOrders",
          "getProducts", "addProduct"}
    \* executeLocationOperation, actions/location/index.ts 358-467
    [] resource = "location" ->
         {"get", "getAll", "create", "update", "delete", "getInventory",
          "getSublocations"}
    \* executeStockAdjustmentOperation, actions/stockAdjustment/index.ts 273-350
    [] resource = "stockAdjustment" ->
         {"get", "getAll", "create", "delete"}
    \* executeStockTransferOperation, actions/stockTransfer/index.ts 380-480
    [] resource = "stockTransfer" ->
         {"get", "getAll", "create", "update", "complete", "void"}
    \* executeCategoryOperation, actions/vendor/index.ts 1539-1641
    [] resource = "category" ->
         {"get", "getAll", "create", "update", "delete", "getProducts"}
    \* executePricingLevelOperation, actions/pricingLevel/index.ts 265-367
    [] resource = "pricingLevel" ->
         {"get", "getAll", "create", "update", "delete", "getPrices"}
    \* executeAdjustmentReasonOperation, actions/adjustmentReason/index.ts 287-366
    [] resource = "adjustmentReason" ->
         {"get", "getAll", "create", "update", "delete"}
    \* executeReportOperation, actions/report/index.ts 233-435
    [] resource = "report" ->
         {"getInventorySummary", "getInventoryByLocation", "getSalesReport",
          "getPurchaseReport", "getLowStockReport", "getValuationReport",
          "getMovementReport"}
    [] OTHER -> {}

\* the name of the resource in the error of the default case of its switch
ResourceLabel(resource) ==
  CASE resource = "product" -> "Product"
    [] resource = "salesOrder" -> "Sales Order"
    [] resource = "purchaseOrder" -> "Purchase Order"
    [] resource = "customer" -> "Customer"
    [] resource = "vendor" -> "Vendor"
    [] resource = "location" -> "Location"
    [] resource = "stockAdjustment" -> "Stock Adjustment"
    [] resource = "stockTransfer" -> "Stock Transfer"
    [] resource = "category" -> "Category"
    [] resource = "pricingLevel" -> "Pricing Level"
    [] resource = "adjustmentReason" -> "Adjustment Reason"
    [] resource = "report" -> "Report"

\* responseData of item i: one object, or an array of them
ObjectOf(i, k)   == [item |-> i, part |-> k]
OneObject(d)     == [isArray |-> FALSE, object |-> d]
ArrayOf(d)       == [isArray |-> TRUE, array |-> d]
ResponsesOf(i) ==
  {OneObject(ObjectOf(i, 1)), ArrayOf(<<>>), ArrayOf(<<ObjectOf(i, 1), ObjectOf(i, 2)>>)}

Resolved(responseData) == [threw |-> FALSE, responseData |-> responseData]
Rejected(message)      == [threw |-> TRUE, message |-> message]

\* the try block of an item awaits a request of the service: the resource is
\* a case of the switch of execute and the operation a case of the switch of
\* that resource
Waits(resource, operation) ==
  resource \in SupportedResources /\ operation \in OperationsOf(resource)

\* what the try block of item i can come to: the switch and the operation called
OperationResults(resource, operation, i) ==
  IF resource \notin SupportedResources
    THEN {Rejected("Resource \"" \o resource \o "\" is not supported")}
  ELSE IF operation \notin OperationsOf(resource)
    THEN {Rejected("Operation \"" \o operation \o "\" is not supported for "
                     \o ResourceLabel(resource) \o " resource")}
  ELSE {Resolved(r) : r \in ResponsesOf(i)} \cup {Rejected("Request failed")}

wrapData(data) ==
  IF ~data.isArray THEN << [json |-> data.object] >>
  ELSE [k \in 1..Len(data.array) |-> [json |-> data.array[k]]]

\* the locals of execute before the loop; `sent` counts the operations
\* awaited and `tried` lists the items whose try block has ended, with what
\* came of it; `awaiting` holds while the operation of item i is awaited
ExecuteLocals ==
  [ i |-> 0, returnData |-> <<>>, sent |-> 0, tried |-> <<>>, awaiting |-> FALSE,
    thrown |-> Undefined, returned |-> Undefined ]

\* the loop ending at the first item that throws, its error entry pushed
ExecutePass_StopAtError(loc, length, continueOnFail, outcome) ==
  LET tried == Append(loc.tried, [item |-> loc.i, outcome |-> outcome])
  IN  IF ~outcome.threw
        THEN [loc EXCEPT !.tried = tried, !.i = @ + 1,
                         !.returnData = @ \o wrapData(outcome.responseData)]
      ELSE IF continueOnFail
        THEN [loc EXCEPT !.tried = tried, !.i = length,
                         !.returnData = Append(@, [json |-> [error |-> outcome.message],
                                                   pairedItem |-> [item |-> loc.i]])]
      ELSE [loc EXCEPT !.tried = tried, !.thrown = Some(outcome.message)]

\* the rest of the pass of item i, from the outcome of its try block
ExecutePass(loc, length, continueOnFail, outcome) ==
  LET tried == Append(loc.tried, [item |-> loc.i, outcome |-> outcome])
  IN  IF ~outcome.threw
        THEN [loc EXCEPT !.tried = tried, !.i = @ + 1,
                         !.returnData = @ \o wrapData(outcome.responseData)]
      ELSE IF continueOnFail
        THEN [loc EXCEPT !.tried = tried, !.i = @ + 1,
                         !.returnData = Append(@, [json |-> [error |-> outcome.message],
                                                   pairedItem |-> [item |-> loc.i]])]
      ELSE [loc EXCEPT !.tried = tried, !.thrown = Some(outcome.message)]

(* ------------------------------- state --------------------------------- *)
VARIABLES
  call,           \* a call of a helper function: its argument and its result
  event,          \* getNodeParameter('event'): the watched event of the job
  webhookData,    \* getWorkflowStaticData('node'): the checkpoint
  running,        \* the cycles awaiting their answer, with their locals
  result,         \* what the most recent completed poll resolved with
  remote,         \* the remote collection behind the job's endpoint
  clock,          \* the wall clock
  hist            \* observations of the run (not program state)

vars == <<call, event, webhookData, running, result, remote, clock, hist>>

NoResponse == [kind |-> "none", items |-> <<>>]

NoCall == [fn |-> "none"]

NoTrack == [state |-> "off", events |-> 0, seen |-> FALSE, inflight |-> FALSE]

\* the id list the created/updated detector of an event reads
TrackedIds(ev, wd) ==
  CASE ResourceType(ev) = "product"         -> OrElse(wd.knownIds, <<>>)
    [] ResourceType(ev) = "salesOrder"      -> OrElse(wd.salesOrderIds, <<>>)
    [] ResourceType(ev) = "purchaseOrder"   -> OrElse(wd.purchaseOrderIds, <<>>)
    [] ResourceType(ev) = "stockAdjustment" -> OrElse(wd.stockAdjustmentIds, <<>>)
    [] OTHER -> <<>>

\* the status map the transition detector of an event reads
TrackedStatuses(ev, wd) ==
  CASE ResourceType(ev) = "salesOrder"    -> OrElse(wd.salesOrderStatuses, <<>>)
    [] ResourceType(ev) = "purchaseOrder" -> OrElse(wd.purchaseOrderStatuses, <<>>)
    [] ResourceType(ev) = "stockTransfer" -> OrElse(wd.stockTransferStatuses, <<>>)
    [] OTHER -> <<>>

TrackedQuantities(wd) == OrElse(wd.inventorySnapshot, <<>>)

NoHistory ==
           [ depth     |-> 0,
              polls     |-> 0,
              done      |-> FALSE,
              overlaps  |-> 0,
              changes   |-> 0,
              used      |-> {},
              phase     |-> "none",
              resp      |-> NoResponse,
              before    |-> EmptyStaticData,
              local     |-> Undefined,
              ghost     |-> EmptyStaticData,
              ghostPhase  |-> "none",
              ghostResult |-> [kind |-> "none", events |-> <<>>],
              bootIds   |-> Undefined,
              sameAsBoot |-> FALSE,
              prevSnap  |-> Undefined,
              left      |-> {},
              back      |-> {},
              quiet     |-> {},
              settled   |-> {},
              track     |-> [id \in Ids |-> NoTrack] ]

\* The observations that span several cycles are kept for the jobs whose
\* cycles have run one after the other.
Observed(h) ==
  IF h.overlaps = 0 THEN h
  ELSE [NoHistory EXCEPT !.depth = h.depth, !.polls = h.polls,
                         !.changes = h.changes, !.used = h.used,
                         !.done = h.done, !.overlaps = h.overlaps,
                         !.phase = h.phase, !.resp = h.resp,
                         !.before = h.before, !.local = h.local]

\* a job before its first poll
NewJob(ev, depth) ==
  /\ event = ev
  /\ webhookData = EmptyStaticData
  /\ running = <<>>
  /\ result = [kind |-> "none", events |-> <<>>]
  /\ remote = <<>>
  /\ clock = 0
  /\ hist = [NoHistory EXCEPT !.depth = depth]

Init ==
  /\ \E ev \in Events \cup UnsupportedEvents : NewJob(ev, 0)
  /\ call = NoCall

(* ---------------------------- environment ------------------------------ *)
\* A job is followed in depth 0, 1, 2 or 3.  In depth 0 the host may invoke poll
\* while an earlier invocation still awaits its answer, and the collection of
\* a job watching updates or a status transition takes one change less.  In
\* depth 1 and 2 the host runs the cycles one after
\* the other, for `depth` more cycles; the collection of a job watching
\* creations takes one more change (a record can leave the collection and come
\* back).  The clock is followed for one more tick in the jobs whose detector
\* reads updatedAt, and in those of an event the detector has no case for,
\* where nothing but the clock changes.  In depth 3 the job starts on a
\* collection that holds records and runs for three cycles, which may overlap
\* as in depth 0.
TimeOf(ev) ==
  IF HasUpdatedAt(ev) \/ ResourceType(ev) \notin Polled THEN MaxTime + 1 ELSE MaxTime
PollsOf(depth) == MaxPolls + (IF depth = 3 THEN 1 ELSE depth)
ChangesOf(ev, depth) ==
  CASE depth = 0 -> IF HasUpdatedAt(ev) \/ ActionType(ev) \in Transitions
                      THEN MaxChanges - 1 ELSE MaxChanges
    [] ActionType(ev) = "created" -> MaxChanges + 1
    [] OTHER -> MaxChanges
OverlapsOf(depth) == IF depth \in {0, 3} THEN MaxOverlaps ELSE 0

Tick ==
  /\ clock < TimeOf(event)
  /\ clock' = clock + 1
  /\ UNCHANGED <<call, event, webhookData, running, result, remote, hist>>

NewRecord(id, status, qty) ==
  [ id |-> id, status |-> status,
    updatedAt |-> IF HasUpdatedAt(event) THEN clock ELSE NoTime,
    quantityOnHand |-> qty ]

\* The identifiers are opaque: a new record gets the least identifier not used
\* so far, or the identifier of a record that left the collection.
CreatableIds ==
  LET fresh == Ids \ hist.used
  IN  (hist.used \ IdsOf(remote))
        \cup {id \in fresh : \A other \in fresh : id <= other}

\* Whether a cycle sends a request does not depend on the job options.
Sends(first) == SnapshotRequests(event, first, NoOptions) # <<>>

\* a record is added to the remote collection, that is to what the service
\* answers the requests of the job with
Create ==
  /\ hist.changes < ChangesOf(event, hist.depth)
  /\ Sends(TRUE) \/ Sends(FALSE)
  /\ \E id \in CreatableIds :
     \E status \in StatusesOf(event) :
     \E qty \in QuantitiesOf(event) :
       /\ remote' = Append(remote, NewRecord(id, status, qty))
       /\ hist' = Observed([hist EXCEPT !.changes = @ + 1, !.sameAsBoot = FALSE,
                                        !.used = @ \cup {id},
                                        !.track[id] = NoTrack])
  /\ UNCHANGED <<call, event, webhookData, running, result, clock>>

\* a record of the remote collection is modified: its updatedAt (where the
\* resource has one) becomes the current time and differs from the old one
Modify ==
  /\ hist.changes < ChangesOf(event, hist.depth)
  /\ \E k \in 1..Len(remote) :
     \E status \in StatusesOf(event) :
     \E qty \in QuantitiesOf(event) :
       LET old == remote[k]
           new == NewRecord(old.id, status, qty)
           known == /\ hist.phase # "none"
                    /\ Includes(TrackedIds(event, webhookData), old.id)
       IN  /\ new # old
           /\ HasUpdatedAt(event) => new.updatedAt # old.updatedAt
           /\ remote' = [remote EXCEPT ![k] = new]
           /\ hist' = Observed([hist EXCEPT
                 !.changes = @ + 1,
                 !.sameAsBoot = FALSE,
                 !.quiet = @ \ {old.id},
                 !.track[old.id] =
                     IF ~HasUpdatedAt(event) THEN NoTrack
                     ELSE IF known /\ hist.track[old.id].state = "off"
                       THEN [state |-> "modified", events |-> 0, seen |-> FALSE,
                             inflight |-> running # <<>>]
                       ELSE [NoTrack EXCEPT !.state = "again"]])
  /\ UNCHANGED <<call, event, webhookData, running, result, clock>>

RemoveAt(s, k) == [j \in 1..(Len(s) - 1) |-> IF j < k THEN s[j] ELSE s[j + 1]]

\* a record leaves the remote collection
Delete ==
  /\ hist.changes < ChangesOf(event, hist.depth)
  /\ \E k \in 1..Len(remote) :
       /\ remote' = RemoveAt(remote, k)
       /\ hist' = Observed([hist EXCEPT !.changes = @ + 1, !.sameAsBoot = FALSE,
                               !.quiet = @ \ {remote[k].id},
                               !.track[remote[k].id] =
                                 IF HasUpdatedAt(event)
                                   THEN [NoTrack EXCEPT !.state = "again"]
                                   ELSE NoTrack])
  /\ UNCHANGED <<call, event, webhookData, running, result, clock>>

(* ------------------------------ poll cycle ------------------------------ *)
\* number of events of a cycle's result that carry record `id`
CountFor(events, id) ==
  Cardinality({k \in 1..Len(events) : events[k].data.id = id})

\* the cycle as it runs on the checkpoint `g` of a job whose failed detection
\* cycles were never attempted: stamped `stamp`, answered by `resp`
GhostCycle(g, stamp, resp) ==
  LET g1 == [g EXCEPT !.lastPollTime = Some(stamp)]
  IN  IF IsFirstPoll(g.lastPollTime)
        THEN [phase |-> "bootstrap", result |-> NullResult,
              wd |-> initializePollingState(g1, event, resp)]
        ELSE LET r == detectChanges(event, g.lastPollTime, g1, g1, resp)
             IN  [phase |-> "detect", result |-> pollReturn(r), wd |-> r.wd]

Completed(phase, cycle, stamp, resp, res, h) ==
  LET gc == GhostCycle(h.ghost, stamp, resp)
      skipped == phase = "detect" /\ resp.kind = "throw"
      \* a successful detection cycle of a job watching creations, of one
      \* watching a status transition
      creations   == /\ phase = "detect" /\ resp.kind = "list"
                     /\ ActionType(event) = "created"
      transitions == /\ phase = "detect" /\ resp.kind = "list"
                     /\ ActionType(event) \in Transitions
                     /\ h.depth = 2
      emitted == IF res.kind = "events"
                   THEN {id \in Ids : CountFor(res.events, id) > 0} ELSE {}
  IN  Observed([h EXCEPT
        !.back = IF creations THEN h.left \cap IdsOf(resp.items) ELSE {},
        !.left = IF creations
                   THEN (@ \cup Range(TrackedIds(event, cycle.entry))) \ IdsOf(resp.items)
                   ELSE @,
        !.settled = IF transitions THEN h.quiet ELSE {},
        !.quiet = IF transitions THEN @ \cup emitted ELSE @,
        !.done  = TRUE,
        !.phase = phase,
        !.resp  = resp,
        !.before = cycle.entry,
        !.local = cycle.lastPollTime,
        !.ghost = IF skipped THEN @ ELSE gc.wd,
        !.ghostPhase  = IF skipped THEN "skipped" ELSE gc.phase,
        !.ghostResult = IF skipped THEN NullResult ELSE gc.result,
        !.bootIds = IF phase = "bootstrap" /\ resp.kind = "list"
                         /\ ActionType(event) = "created"
                      THEN Some(IdsOf(resp.items)) ELSE @,
        !.sameAsBoot = IF phase = "bootstrap"
                         THEN h.sameAsBoot /\ resp.kind \in {"list", "none"} ELSE @,
        !.prevSnap = IF h.phase = "detect" /\ h.resp.kind = "list"
                          /\ ActionType(event) = "created"
                       THEN Some(h.resp.items) ELSE @,
        !.track = [id \in Ids |->
           LET t == h.track[id]
           IN  IF t.state # "modified" THEN t
               ELSE IF resp.kind # "list" THEN [NoTrack EXCEPT !.state = "again"]
               ELSE [t EXCEPT
                      !.events = IF phase = "detect" /\ res.kind = "events"
                                   THEN @ + CountFor(res.events, id) ELSE @,
                      !.seen = \/ @
                               \/ /\ phase = "detect" /\ resp.kind = "list"
                                  /\ ~t.inflight /\ id \in IdsOf(resp.items),
                      !.inflight = FALSE]] ])

\* The host invokes poll on its timer, whether or not an earlier invocation
\* still awaits its answer.
Scheduled ==
  /\ hist.polls < PollsOf(hist.depth)
  /\ running # <<>> => hist.overlaps < OverlapsOf(hist.depth)

\* the locals of a poll invoked on the checkpoint wd
Cycle(wd) ==
  [ pc           |-> IF IsFirstPoll(wd.lastPollTime) THEN "init" ELSE "detect",
    lastPollTime |-> wd.lastPollTime,
    entry        |-> wd ]

\* a poll has been invoked
Begun(h, first) ==
  Observed([h EXCEPT !.polls = @ + 1, !.done = FALSE,
                     !.overlaps = IF running # <<>> THEN @ + 1 ELSE @,
                     !.sameAsBoot = first \/ @])

\* poll up to its first await: read and stamp lastPollTime, read the baseline,
\* send the request
PollBegin ==
  /\ Scheduled
  /\ Sends(IsFirstPoll(webhookData.lastPollTime))
  /\ running' = Append(running, Cycle(webhookData))
  /\ webhookData' = [webhookData EXCEPT !.lastPollTime = Some(clock)]
  /\ hist' = Begun(hist, IsFirstPoll(webhookData.lastPollTime))
  /\ UNCHANGED <<call, event, result, remote, clock>>

\* the first poll of an event that has no endpoint to initialise from
PollBootstrapNoRequest ==
  /\ Scheduled
  /\ IsFirstPoll(webhookData.lastPollTime)
  /\ ~Sends(TRUE)
  /\ webhookData' = initializePollingState(
                      [webhookData EXCEPT !.lastPollTime = Some(clock)],
                      event, NoResponse)
  /\ result' = NullResult
  /\ hist' = Completed("bootstrap", Cycle(webhookData), clock, NoResponse,
                       NullResult, Begun(hist, TRUE))
  /\ UNCHANGED <<call, event, running, remote, clock>>

\* a later poll of an event whose resource detectChanges has no case for
PollDetectNoRequest ==
  /\ Scheduled
  /\ ~IsFirstPoll(webhookData.lastPollTime)
  /\ ~Sends(FALSE)
  /\ LET stamped == [webhookData EXCEPT !.lastPollTime = Some(clock)]
         r == detectChanges(event, webhookData.lastPollTime, stamped, stamped,
                            NoResponse)
     IN  /\ webhookData' = r.wd
         /\ result' = pollReturn(r)
         /\ hist' = Completed("detect", Cycle(webhookData), clock, NoResponse,
                              pollReturn(r), Begun(hist, FALSE))
  /\ UNCHANGED <<call, event, running, remote, clock>>

\* the request of initializePollingState is answered; poll returns null
InitResponse ==
  /\ \E k \in 1..Len(running) :
     \E outcome \in Outcomes :
       LET resp == inFlowApiRequest(remote, PageCount, outcome)
       IN  /\ running[k].pc = "init"
           /\ webhookData' = initializePollingState(webhookData, event, resp)
           /\ result' = NullResult
           /\ running' = RemoveAt(running, k)
           /\ hist' = Completed("bootstrap", running[k],
                                  webhookData.lastPollTime.v, resp,
                                  NullResult, hist)
  /\ UNCHANGED <<call, event, remote, clock>>

\* the request of the detector is answered; poll returns the changes
DetectResponse ==
  /\ \E k \in 1..Len(running) :
     \E outcome \in Outcomes :
       LET \* the report request of pollInventoryChanges carries no count
           count == IF ResourceType(event) = "inventory" THEN NoCount ELSE PageCount
           resp == inFlowApiRequest(remote, count, outcome)
           r    == detectChanges(event, running[k].lastPollTime, running[k].entry,
                                 webhookData, resp)
       IN  /\ running[k].pc = "detect"
           /\ webhookData' = r.wd
           /\ result' = pollReturn(r)
           /\ running' = RemoveAt(running, k)
           /\ hist' = Completed("detect", running[k],
                                  webhookData.lastPollTime.v, resp,
                                  pollReturn(r), hist)
  /\ UNCHANGED <<call, event, remote, clock>>

Next ==
  \/ Tick
  \/ Create
  \/ Modify
  \/ Delete
  \/ PollBegin
  \/ PollBootstrapNoRequest
  \/ PollDetectNoRequest
  \/ InitResponse
  \/ DetectResponse

Spec == Init /\ [][Next]_vars

\* The jobs followed in depth, with one watching an event the detector has no
\* case for: those watching creations or updates, and, for one more cycle,
\* those whose baseline (a status map, the quantity map) is first recorded by
\* the cycle after the bootstrap cycle.
InitDeep ==
  /\ \E ev \in {e \in Events : ActionType(e) \in {"created", "updated"}}
                \cup {"customer.created"} :
       NewJob(ev, 1)
  /\ call = NoCall

InitLong ==
  /\ \E ev \in {e \in Events : ActionType(e) \in Transitions \cup {"changed"}}
                \cup {"customer.created"} :
       NewJob(ev, 2)
  /\ call = NoCall

SpecDeep == InitDeep /\ [][Next]_vars
SpecLong == InitLong /\ [][Next]_vars

\* The lists of records the collection of an event can hold, no two with the
\* same identifier, none updated after `latest`.
RecordLists(ev, latest) ==
  LET times   == IF HasUpdatedAt(ev) THEN 0..latest ELSE {NoTime}
      records == [ id : Ids, status : StatusesOf(ev), updatedAt : times,
                   quantityOnHand : QuantitiesOf(ev) ]
  IN  {s \in UNION {[1..n -> records] : n \in 0..MaxIds} :
         \A j, k \in 1..Len(s) : j # k => s[j].id # s[k].id}

\* A job created when the collection of the service already holds records,
\* listed by identifier.
InitOrder ==
  /\ \E ev \in Events \cup {"customer.created"} :
     \E known \in RecordLists(ev, 0) :
       /\ \A j, k \in 1..Len(known) : j < k => known[j].id < known[k].id
       /\ event = ev
       /\ webhookData = EmptyStaticData
       /\ running = <<>>
       /\ result = [kind |-> "none", events |-> <<>>]
       /\ remote = known
       /\ clock = 0
       /\ hist = [NoHistory EXCEPT !.depth = 3, !.used = IdsOf(known)]
  /\ call = NoCall

\* The collection of the service changes, once, at any moment of the job, to
\* any other list of records, in any order.
Change ==
  /\ hist.changes = 0
  /\ Sends(TRUE) \/ Sends(FALSE)
  /\ \E fetched \in RecordLists(event, clock) :
       /\ fetched # remote
       /\ remote' = fetched
       /\ hist' = Observed([hist EXCEPT !.changes = @ + 1, !.sameAsBoot = FALSE,
                                        !.used = @ \cup IdsOf(fetched)])
  /\ UNCHANGED <<call, event, webhookData, running, result, clock>>

NextOrder ==
  \/ Tick
  \/ Change
  \/ PollBegin
  \/ PollBootstrapNoRequest
  \/ PollDetectNoRequest
  \/ InitResponse
  \/ DetectResponse

SpecOrder == InitOrder /\ [][NextOrder]_vars

(* ------------------------ calls of the functions ------------------------ *)
\* The functions that depend on their arguments only are called on every
\* argument of a bounded set: `call` holds the argument and, once the call has
\* returned, the result.
jobVars == <<event, webhookData, running, result, remote, clock, hist>>

Call(fn, arg) == [fn |-> fn, arg |-> arg, done |-> FALSE, ret |-> "none"]

CleanObjectInputs ==
  LET level3 == ObjectsOver(InnerKeys, Leaves)
      level2 == ObjectsOver(InnerKeys, Leaves \cup {JsObject(o) : o \in level3})
  IN  ObjectsOver(Keys, Leaves \cup {JsObject(o) : o \in level2})

SnapshotRequestsInputs ==
  [ event : Events \cup UnsupportedEvents, first : BOOLEAN, options : OptionSets ]

\* inFlowApiRequestAllItems: a collection of up to MaxRecords records read
\* without a limit (none given, or 0) or with one around the page boundaries
AllItemsLimits ==
  {Undefined, Some(0), Some(1), Some(pageSize - 1), Some(pageSize),
   Some(pageSize + 1), Some(2 * pageSize), Some(MaxRecords + 1)}
AllItemsInputs == [ n : 0..MaxRecords, limit : AllItemsLimits ]

\* a call of a function that loops: `loc` holds its locals from one step of
\* the call to the next
Loop(fn, arg, locals) ==
  [fn |-> fn, arg |-> arg, done |-> FALSE, ret |-> "none", loc |-> locals]

\* retryOperation: the two optional parameters left out or given
RetryInputs ==
  [ maxRetries   : {Undefined} \cup {Some(r) : r \in -1..MaxRetries},
    initialDelay : {Undefined, Some(0), Some(1), Some(250)} ]
OperationOutcomes == {"resolve", "reject"}

\* execute: the number of input items, the two node parameters and the
\* continue-on-fail setting of the node
ExecuteInputs ==
  [ length : 0..MaxItems, resource : {"product", "customer", "report", "widget"},
    operation : {"getAll", "getBarcode", "getSalesReport", "frobnicate"},
    continueOnFail : BOOLEAN ]

\* batchArray: arrays of distinct elements, batch sizes below, within and
\* above their lengths
BatchInputs ==
  [ array : {[k \in 1..n |-> k] : n \in 0..MaxLength}, batchSize : -1..MaxBatch ]

\* option objects handed to buildQueryParams: every key missing, falsy or set
BuildQueryParamsInputs ==
  [ limit     : {Absent, JsUndefined, JsNumber(0), JsNumber(50)},
    after     : {Absent, JsString(""), JsString("abc123")},
    before    : {Absent, JsString(""), JsString("xyz789")},
    include   : {Absent, JsNull, JsString("cost"), JsArray(<<>>),
                 JsArray(<<JsString("cost")>>),
                 JsArray(<<JsString("cost"), JsString("defaultPrice")>>)},
    smart     : {Absent, JsString(""), JsString("test search")},
    startDate : {Absent, JsString(""), JsString("2024-03-15")},
    endDate   : {Absent, JsString("2024-03-31")} ]

\* strings handed to createReference: two GUIDs (lower and upper case), each
\* with one character replaced, one character put before or after it, or cut
\* short (the empty string included), and a name
LowerGuid == <<"5", "5", "0", "e", "8", "4", "0", "0", "-", "e", "2", "9", "b", "-", "4", "1", "d", "4", "-", "a", "7", "1", "6", "-", "4", "4", "6", "6", "5", "5", "4", "4", "0", "0", "0", "0">>
UpperGuid == <<"5", "5", "0", "E", "8", "4", "0", "0", "-", "E", "2", "9", "B", "-", "4", "1", "D", "4", "-", "A", "7", "1", "6", "-", "4", "4", "6", "6", "5", "5", "4", "4", "A", "B", "C", "D">>
ProductName == <<"P", "r", "o", "d", "u", "c", "t", " ", "N", "a", "m", "e">>
SampleChars == {"0", "a", "F", "g", "G", "-", " ", "\n"}
Substitute(s, k, c) == [i \in 1..Len(s) |-> IF i = k THEN c ELSE s[i]]
CreateReferenceInputs ==
  LET guids == {LowerGuid, UpperGuid}
  IN  {Substitute(g, k, c) : g \in guids, k \in 1..Len(LowerGuid), c \in SampleChars}
        \cup {g \o <<c>> : g \in guids, c \in SampleChars}
        \cup {<<c>> \o g : g \in guids, c \in SampleChars}
        \cup {SubSeq(g, 1, k) : g \in guids, k \in 0..Len(LowerGuid)}
        \cup {ProductName}

InitCalls ==
  /\ NewJob("salesOrder.created", 0)
  /\ call \in {Call("cleanObject", obj) : obj \in CleanObjectInputs}
            \cup {Call("SnapshotRequests", a) : a \in SnapshotRequestsInputs}
            \cup {Call("createReference", [value |-> s]) : s \in CreateReferenceInputs}
            \cup {Call("buildQueryParams", [options |-> o]) : o \in BuildQueryParamsInputs}
            \cup {Loop("inFlowApiRequestAllItems", a, AllItemsLocals) : a \in AllItemsInputs}
            \cup {Loop("retryOperation", a, RetryLocals) : a \in RetryInputs}
            \cup {Loop("execute", a, ExecuteLocals) : a \in ExecuteInputs}
            \cup {Loop("batchArray", a, BatchLocals) : a \in BatchInputs}

CallCleanObject ==
  /\ call.fn = "cleanObject" /\ ~call.done
  /\ call' = [call EXCEPT !.done = TRUE, !.ret = cleanObject(call.arg)]
  /\ UNCHANGED jobVars

CallSnapshotRequests ==
  /\ call.fn = "SnapshotRequests" /\ ~call.done
  /\ call' = [call EXCEPT !.done = TRUE,
                          !.ret = SnapshotRequests(call.arg.event, call.arg.first,
                                                   call.arg.options)]
  /\ UNCHANGED jobVars

CallCreateReference ==
  /\ call.fn = "createReference" /\ ~call.done
  /\ call' = [call EXCEPT !.done = TRUE,
                          !.ret = [valid |-> isValidGuid(call.arg.value),
                                   ref   |-> createReference(call.arg.value)]]
  /\ UNCHANGED jobVars

CallBuildQueryParams ==
  /\ call.fn = "buildQueryParams" /\ ~call.done
  /\ call' = [call EXCEPT !.done = TRUE, !.ret = buildQueryParams(call.arg.options)]
  /\ UNCHANGED jobVars

\* the result of a call whose locals are `loc`, when it has returned or thrown
ReturnValue(loc) == [kind |-> "returned", data |-> loc.returned.v]

\* inFlowApiRequestAllItems is called: it runs to its first await, the first
\* request sent
CallAllItemsStart ==
  /\ call.fn = "inFlowApiRequestAllItems" /\ ~call.done
  /\ ~call.loc.awaiting /\ call.loc.requests = <<>>
  /\ call.loc.hasMore
  /\ call' = [call EXCEPT !.loc = AllItemsSend(call.loc)]
  /\ UNCHANGED jobVars

\* the awaited request is answered: the rest of the pass, then the next request
\* sent or the return; a rejected request rejects the call
CallAllItemsAnswer ==
  /\ call.fn = "inFlowApiRequestAllItems" /\ ~call.done
  /\ call.loc.awaiting
  /\ \E outcome \in Outcomes :
       LET responseData == AllItemsResponse(call.arg.n, call.loc.query, outcome)
           answered     == [call.loc EXCEPT !.pages = Append(@, responseData),
                                            !.awaiting = FALSE]
           loc          == AllItemsPass(answered, call.arg.limit, responseData)
       IN  IF responseData.kind = "throw"
             THEN call' = [call EXCEPT !.done = TRUE, !.loc = answered,
                                       !.ret = [kind |-> "throw"]]
           ELSE IF loc.returned.def
             THEN call' = [call EXCEPT !.done = TRUE, !.loc = loc, !.ret = ReturnValue(loc)]
           ELSE call' = [call EXCEPT !.loc = AllItemsSend(loc)]
  /\ UNCHANGED jobVars

\* the call of retryOperation with locals `loc` goes on, or ends
RetryStep(loc) ==
  [call EXCEPT !.loc = loc,
               !.done = loc.returned.def \/ loc.thrown,
               !.ret = IF loc.returned.def THEN ReturnValue(loc)
                       ELSE IF loc.thrown THEN [kind |-> "throw", data |-> loc.lastError]
                       ELSE @]

\* retryOperation is called: it runs to its first await, operation() called
CallRetryStart ==
  /\ call.fn = "retryOperation" /\ ~call.done
  /\ call.loc.pending = "none" /\ call.loc.called = 0
  /\ call.loc.attempt <= OrElse(call.arg.maxRetries, DefaultMaxRetries)
  /\ call' = RetryStep(RetryEnter(call.loc, OrElse(call.arg.maxRetries, DefaultMaxRetries)))
  /\ UNCHANGED jobVars

\* retryOperation is called and its loop not entered at all: throw lastError,
\* still undefined
CallRetryNoAttempt ==
  /\ call.fn = "retryOperation" /\ ~call.done
  /\ call.loc.pending = "none" /\ call.loc.called = 0
  /\ ~(call.loc.attempt <= OrElse(call.arg.maxRetries, DefaultMaxRetries))
  /\ call' = RetryStep(RetryEnter(call.loc, OrElse(call.arg.maxRetries, DefaultMaxRetries)))
  /\ UNCHANGED jobVars

\* the awaited operation() settles: the return, the wait started before the
\* next attempt, or the throw after the last one
CallRetrySettle ==
  /\ call.fn = "retryOperation" /\ ~call.done
  /\ call.loc.pending = "operation"
  /\ \E outcome \in OperationOutcomes :
       call' = RetryStep(RetryPass(call.loc,
                                   OrElse(call.arg.maxRetries, DefaultMaxRetries),
                                   OrElse(call.arg.initialDelay, DefaultInitialDelay),
                                   outcome))
  /\ UNCHANGED jobVars

\* the awaited delay(delayMs) is over: the next attempt
CallRetryTimer ==
  /\ call.fn = "retryOperation" /\ ~call.done
  /\ call.loc.pending = "timer"
  /\ call' = RetryStep(RetryNext(call.loc, OrElse(call.arg.maxRetries, DefaultMaxRetries)))
  /\ UNCHANGED jobVars

\* execute runs on from the top of its loop, to the next operation it awaits,
\* to its return or to the error it throws; an item whose resource or
\* operation is no case of the switches throws without a request
RECURSIVE ExecuteRun(_, _)
ExecuteRun(loc, arg) ==
  IF loc.thrown.def THEN loc
  ELSE IF ~(loc.i < arg.length) THEN [loc EXCEPT !.returned = Some(<<loc.returnData>>)]
  ELSE IF Waits(arg.resource, arg.operation)
    THEN [loc EXCEPT !.sent = @ + 1, !.awaiting = TRUE]
  ELSE ExecuteRun(ExecutePass(loc, arg.length, arg.continueOnFail,
                              CHOOSE o \in OperationResults(arg.resource, arg.operation, loc.i) : TRUE),
                  arg)

\* the call of execute with locals `loc` goes on, or ends
ExecuteStep(loc) ==
  [call EXCEPT !.loc = loc,
               !.done = loc.thrown.def \/ loc.returned.def,
               !.ret = IF loc.thrown.def THEN [kind |-> "throw", message |-> loc.thrown.v]
                       ELSE IF loc.returned.def THEN ReturnValue(loc)
                       ELSE @]

\* execute is called: it runs to its first await, or to its end when no item
\* awaits anything
CallExecuteStart ==
  /\ call.fn = "execute" /\ ~call.done
  /\ ~call.loc.awaiting /\ call.loc.i = 0 /\ call.loc.tried = <<>>
  /\ call' = ExecuteStep(ExecuteRun(call.loc, call.arg))
  /\ UNCHANGED jobVars

\* the awaited operation of item i settles: the rest of its pass, then the
\* operation of the next item awaited, the return or the throw
CallExecuteAnswer ==
  /\ call.fn = "execute" /\ ~call.done
  /\ call.loc.awaiting
  /\ \E outcome \in OperationResults(call.arg.resource, call.arg.operation, call.loc.i) :
       LET answered == [call.loc EXCEPT !.awaiting = FALSE]
           loc      == ExecutePass(answered, call.arg.length, call.arg.continueOnFail,
                                   outcome)
       IN  call' = ExecuteStep(ExecuteRun(loc, call.arg))
  /\ UNCHANGED jobVars

\* one pass of the loop of batchArray (the passes observed are capped)
CallBatchPass ==
  /\ call.fn = "batchArray" /\ ~call.done
  /\ call.loc.i < Len(call.arg.array)
  /\ Len(call.loc.batches) < MaxPasses
  /\ call' = [call EXCEPT !.loc = BatchPass(call.loc, call.arg.array, call.arg.batchSize)]
  /\ UNCHANGED jobVars

\* return batches when the loop condition fails
CallBatchReturn ==
  /\ call.fn = "batchArray" /\ ~call.done
  /\ ~(call.loc.i < Len(call.arg.array))
  /\ call' = [call EXCEPT !.done = TRUE, !.ret = call.loc.batches]
  /\ UNCHANGED jobVars

NextCalls ==
  \/ CallCleanObject
  \/ CallSnapshotRequests
  \/ CallCreateReference
  \/ CallBuildQueryParams
  \/ CallAllItemsStart
  \/ CallAllItemsAnswer
  \/ CallRetryStart
  \/ CallRetryNoAttempt
  \/ CallRetrySettle
  \/ CallRetryTimer
  \/ CallExecuteStart
  \/ CallExecuteAnswer
  \/ CallBatchPass
  \/ CallBatchReturn

SpecCalls == InitCalls /\ [][NextCalls]_vars

(* ------------------------------- claims --------------------------------- *)
\* a cycle of that phase has completed and no poll was invoked since
CycleDone(phase) == hist.done /\ hist.phase = phase

\* the host has invoked every poll of the job after the one before it had
\* completed: the cycles of the job did not overlap (the scheduling the
\* claims about a sequence of cycles are stated for)
Serial == hist.overlaps = 0

Snapshot == hist.resp.items

EmittedFor(id) == CountFor(result.events, id)

\* C1: the first poll of a job (the checkpoint has no lastPollTime) returns
\* null and emits no event, whatever the remote collection contains.
C1_FirstPollReturnsNull ==
  (hist.done /\ hist.phase # "none" /\ ~hist.before.lastPollTime.def)
    => result = NullResult

C1_Witness ==
  /\ hist.done /\ hist.polls = 1 /\ ~hist.before.lastPollTime.def
  /\ hist.resp.kind = "list" /\ Len(Snapshot) > 0
  /\ result = NullResult

\* C2: in a job whose cycles do not overlap, after a first poll answered
\* with a list, the baseline the event's
\* detector reads (id set, status map or quantity map) is the one of the
\* snapshot fetched by that first poll.
C2_BootstrapBaselineIsSnapshot ==
  (Serial /\ CycleDone("bootstrap") /\ hist.resp.kind = "list") =>
    CASE ActionType(event) \in {"created", "updated"} ->
           Range(TrackedIds(event, webhookData)) = IdsOf(Snapshot)
      [] ActionType(event) \in {"fulfilled", "received", "completed"} ->
           TrackedStatuses(event, webhookData) = MapStatuses(Snapshot)
      [] OTHER ->
           TrackedQuantities(webhookData) = MapQuantities(Snapshot)

\* C3: in a job whose cycles do not overlap, a bootstrap poll followed by a
\* second poll, answered from a remote
\* collection that has not changed since the bootstrap poll began, emits no
\* event.
C3_NoEventsOnUnchangedSecondPoll ==
  (Serial /\ CycleDone("detect") /\ hist.polls = 2 /\ hist.resp.kind = "list"
     /\ hist.sameAsBoot)
    => result = NullResult

\* C4: in a job whose cycles do not overlap, when the snapshot request of a
\* detection cycle throws, the checkpoint after the cycle is the checkpoint
\* before it.
C4_FailedCycleKeepsCheckpoint ==
  (Serial /\ CycleDone("detect") /\ hist.resp.kind = "throw")
    => webhookData = hist.before

\* C5: in a job whose cycles do not overlap, a detection cycle answered with
\* a list returns what it would have returned had the failed detection cycles
\* before it never been attempted.
C5_FailedCycleLosesNothing ==
  (Serial /\ CycleDone("detect") /\ hist.resp.kind = "list")
    => result = hist.ghostResult

\* C6: when the snapshot request of a detection cycle throws, poll does not
\* throw: it returns null, with no event.
C6_FetchErrorNeverPropagates ==
  (CycleDone("detect") /\ hist.resp.kind = "throw")
    => result = NullResult

C6_Witness ==
  /\ CycleDone("detect") /\ hist.resp.kind = "throw"
  /\ Len(remote) > 0
  /\ result = NullResult

\* C7: a detection cycle of a created job emits one created event for exactly
\* the snapshot items whose id is not in the tracked id set, and then the
\* tracked id set is the set of ids of the snapshot.
C7_CreatedDiffAndReplace ==
  (CycleDone("detect") /\ hist.resp.kind = "list" /\ ActionType(event) = "created")
    => /\ \A id \in Ids :
            EmittedFor(id) =
              IF id \in IdsOf(Snapshot) /\ ~Includes(TrackedIds(event, hist.before), id)
                THEN 1 ELSE 0
       /\ \A k \in 1..Len(result.events) : result.events[k].event = event
       /\ Range(TrackedIds(event, webhookData)) = IdsOf(Snapshot)

C7_Witness ==
  /\ CycleDone("detect") /\ hist.resp.kind = "list" /\ ActionType(event) = "created"
  /\ \E new \in IdsOf(Snapshot), old \in IdsOf(Snapshot) :
       /\ ~Includes(TrackedIds(event, hist.before), new) /\ EmittedFor(new) = 1
       /\ Includes(TrackedIds(event, hist.before), old)  /\ EmittedFor(old) = 0
  /\ Range(TrackedIds(event, webhookData)) = IdsOf(Snapshot)

\* C8: for a created job whose cycles do not overlap and whose bootstrap
\* fetched a list, the next poll emits
\* exactly one created event for every id of its snapshot that was not in the
\* bootstrap snapshot, and a poll answered with the same snapshot as the
\* detection cycle before it emits no created event.
C8_CreatedOnceAfterBootstrap ==
  (Serial /\ CycleDone("detect") /\ hist.resp.kind = "list" /\ ActionType(event) = "created")
    => /\ (hist.polls = 2 /\ hist.bootIds.def) =>
            \A id \in IdsOf(Snapshot) \ hist.bootIds.v : EmittedFor(id) = 1
       /\ (hist.prevSnap.def /\ hist.prevSnap.v = Snapshot) =>
            result = NullResult

C8_Witness ==
  /\ CycleDone("detect") /\ hist.resp.kind = "list" /\ ActionType(event) = "created"
  /\ hist.polls = 3 /\ hist.bootIds.def
  /\ hist.prevSnap.def /\ hist.prevSnap.v = Snapshot
  /\ IdsOf(Snapshot) \ hist.bootIds.v # {}
  /\ result = NullResult

\* C9: a detection cycle of an updated job emits an updated event for a
\* snapshot item if and only if the item's id is in the tracked id set and its
\* updatedAt is strictly greater than the stored lastPollTime.
Qualifies(item) ==
  /\ Includes(TrackedIds(event, hist.before), item.id)
  /\ item.updatedAt # NoTime
  /\ item.updatedAt > hist.before.lastPollTime.v

C9_UpdatedIffKnownAndNewer ==
  (CycleDone("detect") /\ hist.resp.kind = "list" /\ ActionType(event) = "updated")
    => /\ \A k \in 1..Len(Snapshot) :
            EmittedFor(Snapshot[k].id) = IF Qualifies(Snapshot[k]) THEN 1 ELSE 0
       /\ \A k \in 1..Len(result.events) :
            /\ result.events[k].event = event
            /\ \E j \in 1..Len(Snapshot) : result.events[k].data = Snapshot[j]

C9_Witness ==
  /\ CycleDone("detect") /\ hist.resp.kind = "list" /\ ActionType(event) = "updated"
  /\ \E j, k \in 1..Len(Snapshot) :
       /\ Qualifies(Snapshot[j]) /\ EmittedFor(Snapshot[j].id) = 1
       /\ ~Includes(TrackedIds(event, hist.before), Snapshot[k].id)
       /\ Snapshot[k].updatedAt > hist.before.lastPollTime.v
       /\ EmittedFor(Snapshot[k].id) = 0

\* C10: in a job whose cycles do not overlap, one modification of a known
\* record yields exactly one updated event:
\* never two, and at least one once a list-answered detection cycle that
\* started after the modification has returned the record.
C10_UpdatedExactlyOnce ==
  \A id \in Ids :
    (Serial /\ ActionType(event) = "updated" /\ hist.track[id].state = "modified") =>
      /\ hist.track[id].events <= 1
      /\ hist.track[id].seen => hist.track[id].events >= 1

\* the status recorded for `id` before the cycle; NoStatus when none is
PreviousStatus(id) ==
  LET prev == TrackedStatuses(event, hist.before)
  IN  IF id \in DOMAIN prev THEN prev[id] ELSE NoStatus

\* C11: a detection cycle of salesOrder.fulfilled emits an event for an order
\* if and only if a previous status is recorded for its id, that status is not
\* "Fulfilled" and the new status is "Fulfilled"; an order seen for the first
\* time emits nothing.
C11_FulfilledIffTransition ==
  (CycleDone("detect") /\ hist.resp.kind = "list" /\ event = "salesOrder.fulfilled")
    => /\ \A k \in 1..Len(Snapshot) :
            EmittedFor(Snapshot[k].id) =
              IF /\ Snapshot[k].status = "Fulfilled"
                 /\ PreviousStatus(Snapshot[k].id) # NoStatus
                 /\ PreviousStatus(Snapshot[k].id) # "Fulfilled"
                THEN 1 ELSE 0
       /\ \A k \in 1..Len(result.events) :
            /\ result.events[k].event = event
            /\ \E j \in 1..Len(Snapshot) : result.events[k].data = Snapshot[j]

C11_Witness ==
  /\ CycleDone("detect") /\ hist.resp.kind = "list" /\ event = "salesOrder.fulfilled"
  /\ \E k \in 1..Len(Snapshot) :
       /\ Snapshot[k].status = "Fulfilled"
       /\ PreviousStatus(Snapshot[k].id) = "Open"
       /\ EmittedFor(Snapshot[k].id) = 1

\* the new statuses a transition event is emitted for
TerminalTarget(ev) ==
  IF ev = "purchaseOrder.received" THEN {"Received"} ELSE {"Completed"}
AcceptedTargets(ev) ==
  IF ev = "purchaseOrder.received" THEN {"Received", "PartiallyReceived"}
                                   ELSE {"Completed"}

\* C12 (as claimed): purchaseOrder.received and stockTransfer.completed are
\* emitted for an item only if its new status is "Received", respectively
\* "Completed", and the status recorded before for its id is exactly "Open".
C12_TransitionOnlyOpenToTerminal ==
  (CycleDone("detect") /\ hist.resp.kind = "list"
     /\ event \in {"purchaseOrder.received", "stockTransfer.completed"})
    => \A k \in 1..Len(Snapshot) :
         EmittedFor(Snapshot[k].id) > 0 =>
           /\ Snapshot[k].status \in TerminalTarget(event)
           /\ PreviousStatus(Snapshot[k].id) = "Open"

\* C12 (amended): purchaseOrder.received is emitted for an item only if its
\* new status is "Received" or "PartiallyReceived", stockTransfer.completed
\* only if it is "Completed", and in both cases only if the status recorded
\* before for its id is exactly "Open".
C12_TransitionOnlyFromOpen ==
  (CycleDone("detect") /\ hist.resp.kind = "list"
     /\ event \in {"purchaseOrder.received", "stockTransfer.completed"})
    => \A k \in 1..Len(Snapshot) :
         EmittedFor(Snapshot[k].id) > 0 =>
           /\ Snapshot[k].status \in AcceptedTargets(event)
           /\ PreviousStatus(Snapshot[k].id) = "Open"

C12_Witness ==
  /\ CycleDone("detect") /\ hist.resp.kind = "list"
  /\ event = "purchaseOrder.received"
  /\ \E k \in 1..Len(Snapshot) :
       /\ Snapshot[k].status = "PartiallyReceived"
       /\ PreviousStatus(Snapshot[k].id) = "Open"
       /\ EmittedFor(Snapshot[k].id) = 1

\* the inventory.changed events of the cycle's result that carry product `id`
InventoryEventsFor(id) ==
  {k \in 1..Len(result.events) : result.events[k].data.productId = id}

\* C13: a detection cycle of inventory.changed emits exactly one event for
\* every product of the report that is in the previous quantity map with a
\* different quantity, carrying previousQuantity, currentQuantity and
\* change = currentQuantity - previousQuantity; it emits none for the other
\* products; afterwards the quantity map is the map of the report.
C13_InventoryChanged ==
  (CycleDone("detect") /\ hist.resp.kind = "list" /\ event = "inventory.changed")
    => LET prev == TrackedQuantities(hist.before)
       IN  /\ \A k \in 1..Len(Snapshot) :
                LET item == Snapshot[k]
                    evs  == InventoryEventsFor(item.id)
                IN  IF item.id \in DOMAIN prev /\ prev[item.id] # item.quantityOnHand
                      THEN /\ Cardinality(evs) = 1
                           /\ \A e \in evs :
                                /\ result.events[e].event = "inventory.changed"
                                /\ result.events[e].data.previousQuantity = prev[item.id]
                                /\ result.events[e].data.currentQuantity = item.quantityOnHand
                                /\ result.events[e].data.change =
                                     item.quantityOnHand - prev[item.id]
                      ELSE evs = {}
           /\ \A e \in 1..Len(result.events) :
                result.events[e].data.productId \in IdsOf(Snapshot)
           /\ TrackedQuantities(webhookData) = MapQuantities(Snapshot)

C13_Witness ==
  /\ CycleDone("detect") /\ hist.resp.kind = "list" /\ event = "inventory.changed"
  /\ \E k \in 1..Len(Snapshot) :
       /\ Snapshot[k].id \in DOMAIN TrackedQuantities(hist.before)
       /\ TrackedQuantities(hist.before)[Snapshot[k].id] > Snapshot[k].quantityOnHand
       /\ \E e \in InventoryEventsFor(Snapshot[k].id) : result.events[e].data.change < 0

\* C14: in a job whose cycles do not overlap, a detection cycle whose
\* request is answered with something that is not a list emits no event and leaves the checkpoint as it was before the
\* cycle, as a failed request is claimed to.
C14_MalformedLeavesCheckpoint ==
  (Serial /\ CycleDone("detect") /\ hist.resp.kind = "nonlist")
    => /\ result = NullResult
       /\ webhookData = hist.before

\* the events the detector of the completed cycle produced
Detected ==
  detectChanges(event, hist.before.lastPollTime, hist.before, hist.before,
                hist.resp).events

\* C16: poll returns null on the bootstrap cycle and on every cycle whose
\* detector produced no event; otherwise it returns the non-empty list of the
\* detected events, each of the shape {event, data}; it never returns an empty
\* list and never throws.
C16_NullOrNonEmptyList ==
  (hist.done /\ hist.phase # "none")
    => /\ result.kind \in {"null", "events"}
       /\ hist.phase = "bootstrap" => result = NullResult
       /\ (hist.phase = "detect" /\ Len(Detected) = 0) => result = NullResult
       /\ (hist.phase = "detect" /\ Len(Detected) > 0) =>
            /\ result.kind = "events"
            /\ result.events = Detected
       /\ result.kind = "events" =>
            /\ Len(result.events) > 0
            /\ \A k \in 1..Len(result.events) :
                 /\ DOMAIN result.events[k] = {"event", "data"}
                 /\ result.events[k].event = event

C16_Witness ==
  /\ hist.done /\ hist.phase = "detect" /\ hist.polls = 2
  /\ hist.resp.kind = "list" /\ Len(Snapshot) > 0
  /\ Len(Detected) = 0 /\ result = NullResult

\* the record an emitted event is about
EventKey(e) ==
  IF "productId" \in DOMAIN e.data THEN e.data.productId ELSE e.data.id

\* C17: the events a poll returns are about records of the snapshot its
\* cycle fetched and appear in the order of those records in the snapshot,
\* for each of the ten events, whatever the records the job knew, whatever
\* the order of the fetched ones, and whether or not the cycle ran while
\* another one awaited its answer.
C17_EventsInSnapshotOrder ==
  (CycleDone("detect") /\ result.kind = "events")
    => LET place(e) == CHOOSE k \in 1..Len(Snapshot) : Snapshot[k].id = EventKey(e)
       IN  /\ \A k \in 1..Len(result.events) :
                EventKey(result.events[k]) \in IdsOf(Snapshot)
           /\ \A j, k \in 1..Len(result.events) :
                j < k => place(result.events[j]) < place(result.events[k])

C17_Witness ==
  /\ CycleDone("detect") /\ result.kind = "events"
  /\ event = "inventory.changed"
  /\ MapIds(Snapshot) = <<2, 1>>
  /\ Len(result.events) = 2
  /\ result.events[1].data.productId = 2
  /\ result.events[2].data.productId = 1

\* C15: a job whose event is none of the ten supported ones is rejected with
\* an error: none of its polls completes silently, with no event and no error.
C15_UnsupportedEventRejected ==
  (hist.done /\ hist.phase # "none" /\ event \notin Events)
    => result.kind = "throw"

\* the requests of the cycle the completed call stands for
Sent == call.ret
CycleRequests == call.fn = "SnapshotRequests" /\ call.done
                   /\ call.arg.event \in Events

\* C18 (as claimed): every poll cycle of a supported event sends exactly one
\* request, and that request asks for one page of 50 records: count = 50 and
\* no cursor.
C18_OneRequestOfFiftyRecords ==
  CycleRequests
    => /\ Len(Sent) = 1
       /\ \A k \in 1..Len(Sent) :
            /\ Sent[k].query.count = Some(PageCount)
            /\ Sent[k].query.after = Undefined

\* C18 (amended): every poll cycle sends at most one request and never asks
\* for a second page (no cursor).  Every cycle of the nine entity events sends
\* exactly one request, to the collection of the event, with count = 50.  The
\* bootstrap cycle of inventory.changed sends no request, and each of its later
\* cycles sends exactly one request, for the inventory summary report, without
\* a count.
C18_AtMostOneRequestNoSecondPage ==
  CycleRequests
    => /\ Len(Sent) <= 1
       /\ \A k \in 1..Len(Sent) : Sent[k].query.after = Undefined
       /\ call.arg.event # "inventory.changed" =>
            /\ Len(Sent) = 1
            /\ Sent[1].endpoint = getEndpointForEvent(call.arg.event)
            /\ Sent[1].query.count = Some(PageCount)
       /\ call.arg.event = "inventory.changed" =>
            /\ call.arg.first => Len(Sent) = 0
            /\ ~call.arg.first =>
                 /\ Len(Sent) = 1
                 /\ Sent[1].endpoint = "/reports/inventorySummary"
                 /\ Sent[1].query.count = Undefined

C18_Witness ==
  /\ CycleRequests
  /\ call.arg.event = "inventory.changed" /\ ~call.arg.first
  /\ call.arg.options.locationId = Some("L1")
  /\ Len(Sent) = 1
  /\ Sent[1].query.count = Undefined
  /\ Sent[1].query.locationId = Some("L1")

\* C19: every request of a poll cycle carries each filter the job options
\* configure (a non-empty locationId, a non-empty categoryId) as a query
\* parameter, whichever event is watched.
C19_FiltersPassedThrough ==
  CycleRequests
    => \A k \in 1..Len(Sent) :
         /\ Truthy(call.arg.options.locationId) =>
              Sent[k].query.locationId = call.arg.options.locationId
         /\ Truthy(call.arg.options.categoryId) =>
              Sent[k].query.categoryId = call.arg.options.categoryId

\* values cleanObject leaves out
Removable(value) == value \in {JsUndefined, JsNull, JsString("")}

\* no entry of `obj` survives the cleaning
RECURSIVE NothingKept(_)
NothingKept(obj) ==
  \A k \in Keys :
    \/ obj[k] = Absent
    \/ Removable(obj[k])
    \/ obj[k].t = "object" /\ NothingKept(obj[k].v)

\* `out` holds exactly the entries of `in` that are to be kept
RECURSIVE IsCleaned(_, _)
IsCleaned(out, in) ==
  \A k \in Keys :
    CASE in[k] = Absent \/ Removable(in[k]) -> out[k] = Absent
      [] in[k].t = "object" ->
           IF NothingKept(in[k].v)
             THEN out[k] = Absent
             ELSE /\ out[k].t = "object"
                  /\ IsCleaned(out[k].v, in[k].v)
      [] OTHER -> out[k] = in[k]

\* C20: cleanObject returns the object holding exactly the entries of its
\* input whose value is not undefined, null or the empty string (0, false and
\* arrays are kept), nested objects being cleaned the same way and left out
\* when nothing of them remains.
C20_CleanObject ==
  (call.fn = "cleanObject" /\ call.done) => IsCleaned(call.ret, call.arg)

C20_Witness ==
  /\ call.fn = "cleanObject" /\ call.done
  /\ call.arg["a"] = JsObject([k \in Keys |->
                        IF k = "a" THEN JsObject([j \in Keys |->
                                          IF j = "a" THEN JsNull ELSE Absent])
                                   ELSE Absent])
  /\ call.arg["b"] = JsNumber(0)
  /\ call.ret["a"] = Absent
  /\ call.ret["b"] = JsNumber(0)


\* a GUID: 36 characters, hyphens after the 8th, 12th, 16th and 20th
\* hexadecimal digit, digits of either case everywhere else
IsGuid(s) ==
  /\ Len(s) = 36
  /\ \A i \in 1..36 :
       IF i \in {9, 14, 19, 24} THEN s[i] = "-" ELSE s[i] \in LowerHex \cup UpperHex

\* C21: createReference(value) is {entityId: value} exactly when value is a
\* GUID (8-4-4-4-12 hexadecimal digits of either case, nothing before or after
\* them) and {name: value} for every other string, the empty one included;
\* isValidGuid answers true for exactly the same strings.
C21_CreateReference ==
  (call.fn = "createReference" /\ call.done)
    => /\ call.ret.valid = IsGuid(call.arg.value)
       /\ call.ret.ref = IF IsGuid(call.arg.value)
                           THEN [entityId |-> call.arg.value]
                           ELSE [name |-> call.arg.value]

C21_Witness ==
  /\ call.fn = "createReference" /\ call.done
  /\ call.arg.value = UpperGuid
  /\ call.ret.valid
  /\ call.ret.ref = [entityId |-> UpperGuid]


\* an option that is present with a truthy value
Given(value) ==
  /\ value # Absent
  /\ value \notin {JsUndefined, JsNull}
  /\ value.t = "string" => value.str # ""
  /\ value.t = "number" => value.num # 0

\* the items of an array of strings separated by commas
RECURSIVE CommaSeparated(_)
CommaSeparated(items) ==
  IF Len(items) = 0 THEN ""
  ELSE IF Len(items) = 1 THEN items[1].str
  ELSE CommaSeparated(SubSeq(items, 1, Len(items) - 1)) \o "," \o items[Len(items)].str

\* C22: buildQueryParams maps limit to count, after to after, before to
\* before, an include array to its comma-joined string, smart to
\* filter[smart], startDate and endDate to themselves; a key is in the result
\* only when its option is present and truthy, so empty options give {}.
C22_BuildQueryParams ==
  (call.fn = "buildQueryParams" /\ call.done)
    => LET o == call.arg.options
           q == call.ret
           Maps(from, to) == IF Given(from) THEN to = from ELSE to = Absent
       IN  /\ Maps(o.limit, q.count)
           /\ Maps(o.after, q.after)
           /\ Maps(o.before, q.before)
           /\ Maps(o.smart, q.filterSmart)
           /\ Maps(o.startDate, q.startDate)
           /\ Maps(o.endDate, q.endDate)
           /\ IF Given(o.include) /\ o.include.t = "array"
                THEN q.include = JsString(CommaSeparated(o.include.items))
                ELSE q.include = Absent
           /\ (\A k \in DOMAIN o : o[k] = Absent) => q = EmptyQuery

C22_Witness ==
  /\ call.fn = "buildQueryParams" /\ call.done
  /\ call.arg.options.limit = JsNumber(50)
  /\ call.arg.options.after = JsString("")
  /\ call.arg.options.include = JsArray(<<JsString("cost"), JsString("defaultPrice")>>)
  /\ call.arg.options.smart = JsString("test search")
  /\ call.ret.count = JsNumber(50)
  /\ call.ret.after = Absent
  /\ call.ret.include = JsString("cost,defaultPrice")
  /\ call.ret.filterSmart = JsString("test search")


\* a call of inFlowApiRequestAllItems, and one that has returned
AllItems == call.fn = "inFlowApiRequestAllItems"
AllItemsReturned == AllItems /\ call.done /\ call.ret.kind = "returned"

\* the records of the pages received, in the order of the requests
RECURSIVE Fetched(_, _)
Fetched(pages, k) ==
  IF k = 0 THEN <<>> ELSE Fetched(pages, k - 1) \o pages[k].items

\* a page after which nothing more is asked for
LastPage(page) == page.kind # "list" \/ Len(page.items) < pageSize

\* C25: inFlowApiRequestAllItems returns the records of the successive
\* 50-record pages in request order, every request after the first carrying
\* after = the entityId of the last record of the page before it; no request
\* follows the first page that is empty, not a list or shorter than 50; with a
\* positive limit it returns exactly the first min(limit, records fetched)
\* records and sends no request once the limit is reached.
C25_AllItemsPagesAndLimit ==
  AllItems
    => LET pages    == call.loc.pages
           requests == call.loc.requests
           limit    == call.arg.limit
           all      == Fetched(pages, Len(pages))
       IN  /\ \A k \in 1..Len(requests) :
                /\ requests[k].count = 50
                /\ requests[k].after =
                     IF k = 1 THEN Undefined
                     ELSE Some(pages[k - 1].items[Len(pages[k - 1].items)].entityId)
           /\ Len(pages) <= Len(requests)
           /\ \A k \in 1..(Len(requests) - 1) : ~LastPage(pages[k])
           /\ (limit.def /\ limit.v > 0) =>
                \A k \in 1..(Len(requests) - 1) : Len(Fetched(pages, k)) < limit.v
           /\ AllItemsReturned =>
                call.ret.data =
                  IF limit.def /\ limit.v > 0 /\ limit.v < Len(all)
                    THEN SubSeq(all, 1, limit.v)
                    ELSE all

C25_Witness ==
  /\ AllItemsReturned
  /\ call.arg.n = 101 /\ call.arg.limit = Some(51)
  /\ Len(call.loc.requests) = 2 /\ Len(call.loc.pages) = 2
  /\ call.loc.requests[2].after = Some(50)
  /\ Len(call.ret.data) = 51
  /\ call.ret.data[51] = Record(51)


\* a call without a limit whose requests were all answered with their page
AllItemsUnlimited ==
  /\ AllItems
  /\ ~(call.arg.limit.def /\ call.arg.limit.v # 0)
  /\ \A k \in 1..Len(call.loc.pages) : call.loc.pages[k].kind = "list"

\* C29: without a limit, against a collection of n records paged by the
\* after-cursor, inFlowApiRequestAllItems ends after exactly floor(n/50)+1
\* requests and returns all n records; its loop ends only on a page that is
\* empty, not a list or not of length 50, or on reaching a positive limit.
C29_AllItemsTerminates ==
  /\ AllItemsUnlimited =>
       /\ Len(call.loc.requests) <= (call.arg.n \div 50) + 1
       /\ ~call.done => /\ call.loc.hasMore
                        /\ call.loc.awaiting \/ call.loc.requests = <<>>
       /\ call.done => /\ Len(call.loc.requests) = (call.arg.n \div 50) + 1
                       /\ call.ret.kind = "returned"
                       /\ call.ret.data = RecordsOf(call.arg.n)
  /\ AllItemsReturned =>
       LET page == call.loc.pages[Len(call.loc.pages)]
       IN  \/ page.kind # "list"
           \/ Len(page.items) # 50
           \/ /\ call.arg.limit.def /\ call.arg.limit.v > 0
              /\ Len(call.loc.returnData) >= call.arg.limit.v

C29_Witness ==
  /\ AllItemsUnlimited /\ call.done
  /\ call.arg.n = 100
  /\ Len(call.loc.requests) = 3
  /\ call.loc.pages[3] = ListResponse(<<>>)
  /\ Len(call.ret.data) = 100


\* the parameters retryOperation runs with
Retries  == IF call.arg.maxRetries.def THEN call.arg.maxRetries.v ELSE 3
FirstWait == IF call.arg.initialDelay.def THEN call.arg.initialDelay.v ELSE 1000

\* C26: with maxRetries >= 0 retryOperation calls the operation at most
\* maxRetries + 1 times, stops at the first success and returns its value,
\* rejects with the error of the last attempt when all attempts fail, waits
\* initialDelay * 2^k between failed attempt k and the next attempt, and does
\* not wait after the final failed attempt.
C26_RetryOperation ==
  (call.fn = "retryOperation" /\ Retries >= 0)
    => LET called  == call.loc.called
           invoked == call.loc.invoked
           delays  == call.loc.delays
           pending == call.loc.pending
       IN  /\ called <= Retries + 1
           /\ Len(invoked) = IF pending = "operation" THEN called - 1 ELSE called
           /\ \A k \in 1..(called - 1) : invoked[k] = "reject"
           /\ \A k \in 1..Len(delays) : delays[k] = FirstWait * 2 ^ (k - 1)
           /\ pending = "operation" => Len(delays) = called - 1
           /\ pending = "timer" => /\ called <= Retries
                                   /\ Len(delays) = called
           /\ call.done =>
                IF invoked[Len(invoked)] = "resolve"
                  THEN /\ call.ret = [kind |-> "returned", data |-> [value |-> Len(invoked) - 1]]
                       /\ Len(delays) = Len(invoked) - 1
                  ELSE /\ called = Retries + 1
                       /\ call.ret = [kind |-> "throw", data |-> Some([error |-> Retries])]
                       /\ Len(delays) = Retries

C26_Witness ==
  /\ call.fn = "retryOperation" /\ call.done
  /\ call.arg.maxRetries = Some(2) /\ call.arg.initialDelay = Some(250)
  /\ call.loc.called = 3
  /\ call.loc.invoked = <<"reject", "reject", "reject">>
  /\ call.loc.delays = <<250, 500>>
  /\ call.ret = [kind |-> "throw", data |-> Some([error |-> 2])]


\* the entries of the output paired with input item i
PairedWith(returnData, i) ==
  {k \in 1..Len(returnData) :
     /\ "pairedItem" \in DOMAIN returnData[k]
     /\ returnData[k].pairedItem = [item |-> i]}

\* C27: execute handles the input items in index order.  With
\* continue-on-fail, an item whose operation throws (an unsupported resource
\* or operation included) adds exactly one {error: message} entry paired with
\* its index and the later items are still handled; without it the first
\* item that throws aborts execute, its error propagates and no output is
\* returned.
C27_ExecuteItemsAndFailures ==
  call.fn = "execute"
    => LET tried      == call.loc.tried
           returnData == call.loc.returnData
           threw(k)   == tried[k].outcome.threw
       IN  /\ \A k \in 1..Len(tried) : tried[k].item = k - 1
           /\ call.loc.awaiting => /\ call.loc.i = Len(tried)
                                   /\ call.loc.sent = Len(tried) + 1
           /\ call.arg.continueOnFail =>
                /\ \A k \in 1..Len(tried) :
                     threw(k) =>
                       \E e \in PairedWith(returnData, k - 1) :
                         /\ PairedWith(returnData, k - 1) = {e}
                         /\ returnData[e].json = [error |-> tried[k].outcome.message]
                /\ call.done => /\ Len(tried) = call.arg.length
                                /\ call.ret = [kind |-> "returned", data |-> <<returnData>>]
           /\ ~call.arg.continueOnFail =>
                /\ \A k \in 1..(Len(tried) - 1) : ~threw(k)
                /\ (Len(tried) > 0 /\ threw(Len(tried))) =>
                     /\ call.done
                     /\ call.ret = [kind |-> "throw",
                                    message |-> tried[Len(tried)].outcome.message]
                /\ (call.done /\ call.ret.kind = "returned") =>
                     /\ Len(tried) = call.arg.length
                     /\ \A k \in 1..Len(tried) : ~threw(k)

C27_Witness ==
  /\ call.fn = "execute" /\ call.done
  /\ call.arg.continueOnFail /\ call.arg.length = 2
  /\ call.arg.resource = "product" /\ call.arg.operation = "getAll"
  /\ call.loc.sent = 2
  /\ call.loc.tried[1].outcome.threw
  /\ ~call.loc.tried[2].outcome.threw
  /\ call.ret.data[1] =
       << [json |-> [error |-> "Request failed"], pairedItem |-> [item |-> 0]],
          [json |-> ObjectOf(1, 1)] >>


\* the batches put one after the other
RECURSIVE Concatenated(_, _)
Concatenated(batches, k) ==
  IF k = 0 THEN <<>> ELSE Concatenated(batches, k - 1) \o batches[k]

\* C30: batchArray terminates for every array and every integer batchSize
\* (its batches being non-empty, after at most as many passes as the array has
\* elements) and returns batches whose concatenation in order is the array,
\* each batch non-empty and of at most batchSize elements.
C30_BatchArrayTerminates ==
  call.fn = "batchArray"
    => LET batches == call.loc.batches
       IN  /\ Len(batches) <= Len(call.arg.array)
           /\ \A k \in 1..Len(batches) :
                /\ Len(batches[k]) > 0
                /\ Len(batches[k]) <= call.arg.batchSize
           /\ call.done => Concatenated(call.ret, Len(call.ret)) = call.arg.array


\* the cycle that follows a bootstrap cycle whose snapshot fetch threw, for a
\* created job (whose bootstrap records its snapshot ids only when it got one)
AfterThrownBootstrap ==
  /\ Serial
  /\ CycleDone("detect") /\ hist.polls = 2
  /\ ActionType(event) = "created"
  /\ ~hist.bootIds.def
  /\ hist.before.knownIds = Some(<<>>)

\* C28: in a job whose cycles do not overlap, when the snapshot fetch of the
\* bootstrap cycle throws, poll still
\* returns null and the checkpoint holds lastPollTime and an empty knownIds;
\* the next cycle is therefore a detection cycle, not a second bootstrap, and
\* it runs against that empty baseline: every record of its snapshot is new.
C28_ThrownBootstrapLeavesEmptyBaseline ==
  /\ (Serial /\ hist.phase = "bootstrap" /\ hist.resp.kind = "throw")
       => /\ result = NullResult
          /\ webhookData.lastPollTime.def
          /\ webhookData.knownIds = Some(<<>>)
          /\ TrackedIds(event, webhookData) = <<>>
          /\ \A k \in 1..Len(running) :
               /\ running[k].pc = "detect"
               /\ running[k].lastPollTime.def
  /\ (AfterThrownBootstrap /\ hist.resp.kind = "list")
       => \A id \in IdsOf(Snapshot) : EmittedFor(id) = 1

C28_Witness ==
  /\ AfterThrownBootstrap /\ hist.resp.kind = "list"
  /\ event = "product.created"
  /\ Len(Snapshot) > 0
  /\ result.kind = "events"
  /\ Len(result.events) = Len(Snapshot)


\* C23: for a job watching creations whose cycles do not overlap, an id
\* that was in the tracked set, was
\* absent from the snapshot of a successful cycle and is present again in the
\* snapshot of a later successful cycle is reported as created again in that
\* later cycle (hist.left holds the ids that left so, hist.back those of them
\* the last cycle found back).
C23_ReturningIdCreatedAgain ==
  (Serial /\ CycleDone("detect") /\ hist.resp.kind = "list" /\ ActionType(event) = "created")
    => \A id \in hist.back : EmittedFor(id) = 1

C23_Witness ==
  /\ CycleDone("detect") /\ hist.resp.kind = "list"
  /\ event = "product.created"
  /\ hist.polls = 3
  /\ hist.back = {1}
  /\ ~Includes(TrackedIds(event, hist.before), 1)
  /\ \E k \in 1..Len(result.events) :
       /\ result.events[k].event = "product.created"
       /\ result.events[k].data.id = 1


\* C24: in a job whose cycles do not overlap, a status transition is
\* reported at most once: once a cycle has
\* emitted salesOrder.fulfilled, purchaseOrder.received or
\* stockTransfer.completed for an id, no later successful cycle emits an event
\* for that id as long as its status stays what it was (hist.settled holds the
\* ids reported before the last cycle whose record has not changed since).
C24_TransitionReportedOnce ==
  (Serial /\ CycleDone("detect") /\ hist.resp.kind = "list" /\ ActionType(event) \in Transitions)
    => \A id \in hist.settled : EmittedFor(id) = 0

C24_Witness ==
  /\ CycleDone("detect") /\ hist.resp.kind = "list"
  /\ event = "purchaseOrder.received"
  /\ hist.settled = {1}
  /\ \E k \in 1..Len(Snapshot) :
       /\ Snapshot[k].id = 1
       /\ Snapshot[k].status = "PartiallyReceived"
       /\ PreviousStatus(1) = "PartiallyReceived"
  /\ result = NullResult

====
